---- MODULE Spec2Model ----
(***************************************************************************)
(* A model of the Riftbound assistant: the rules-text parser, the mulligan *)
(* evaluator, the battlefield analyser and the play sequencer, each        *)
(* translated from the Python source.                                      *)
(*                                                                         *)
(* Conventions.  A Python list is a sequence.  A rules text is a sequence  *)
(* of lower-case word tokens in which "." and "nl" are the sentence        *)
(* separators; numbers are the tokens "1".."5" and "+1".."+3".  A Python   *)
(* None of an Optional[int] is NoneInt.  Scores that the source computes   *)
(* with floats are kept exactly, multiplied by Scale.                      *)
(***************************************************************************)
EXTENDS Integers, Sequences, FiniteSets, TLC

VARIABLES
    pc,            \* position of the running entry point
    hand,          \* List[CardInHand]: the cards, with their parsed_abilities
    hand0,         \* the hand as it was passed in
    legend_card,   \* Optional[CardRecord]: a card id or NoCard
    going_first,   \* bool
    composition,   \* analyze_hand_composition's result
    rune_analysis, \* analyze_rune_curve's result (dead_cards)
    kept_any_3_cost_unit, \* hand_state['kept_any_3_cost_unit']
    decisions,     \* List[MulliganCardDecision]
    mulligan_count,
    summary,
    entry,         \* the entry point that was called
    hand_ids,      \* MulliganRequest.hand_ids
    missing_ids,   \* make_hand_from_ids: the ids not in the catalog
    response,      \* what the endpoint answers
    my_energy,     \* analyze_playable_cards' arguments
    my_power,
    turn,
    phase,
    battlefields,  \* List[BattlefieldState]
    my_score,
    opponent_score,
    my_legend_exhausted,       \* bool
    opponent_legend,           \* Optional[CardRecord]: a card id or NoCard
    opponent_legend_exhausted, \* bool
    legend_synergy, \* analyze_legend_synergy's (synergies, total_modifier)
    remaining_cards, \* _build_optimal_sequence's sorted_cards, while its loop runs
    value_game_phase,   \* card_evaluation.calculate_card_value's game_phase
    battlefield_context, \* and its battlefield_context
    playable,      \* the cards that passed the resource filter
    battlefield_analysis,
    threat_level,
    card_values,   \* card_id -> value, times Scale
    primary_sequence,
    alternative_sequences,
    advice         \* PlayableCardsAdvice

mullVars == <<hand, hand0, legend_card, going_first, composition, rune_analysis,
              kept_any_3_cost_unit, decisions, mulligan_count, summary>>
apiVars == <<entry, hand_ids, missing_ids, response>>
inputVars == <<my_energy, my_power, turn, phase, battlefields, my_score, opponent_score,
               my_legend_exhausted, opponent_legend, opponent_legend_exhausted,
               value_game_phase, battlefield_context>>
playVars == <<inputVars, legend_synergy, remaining_cards, playable, battlefield_analysis, threat_level, card_values,
              primary_sequence, alternative_sequences, advice>>
vars == <<pc, mullVars, apiVars, playVars>>

----------------------------------------------------------------------------
(* Generic helpers *)

NoneInt == -1

Range(s) == {s[i] : i \in 1..Len(s)}

RECURSIVE SumSeq(_)
SumSeq(s) == IF s = <<>> THEN 0 ELSE Head(s) + SumSeq(Tail(s))

RECURSIVE SelectIdx(_, _, _)
\* the indexes i of 1..n, ascending, with i \in S
SelectIdx(i, n, S) ==
    IF i > n THEN <<>>
    ELSE IF i \in S THEN <<i>> \o SelectIdx(i + 1, n, S)
    ELSE SelectIdx(i + 1, n, S)

RECURSIVE InsertDesc(_, _)
\* insert the pair x = [k, v] after every pair whose key is >= x.k
InsertDesc(x, s) ==
    IF s = <<>> THEN <<x>>
    ELSE IF Head(s).k >= x.k THEN <<Head(s)>> \o InsertDesc(x, Tail(s))
    ELSE <<x>> \o s

RECURSIVE SortDesc(_)
\* list.sort(key=..., reverse=True): descending and stable
SortDesc(s) ==
    IF s = <<>> THEN <<>>
    ELSE InsertDesc(s[Len(s)], SortDesc(SubSeq(s, 1, Len(s) - 1)))

----------------------------------------------------------------------------
(* ability_parser.py *)

Separators == {".", "nl"}
NumTokens == {"1", "2", "3", "4", "5"}
PlusTokens == {"+1", "+2", "+3"}

NumOf(w) ==
    CASE w = "1" -> 1 [] w = "2" -> 2 [] w = "3" -> 3 [] w = "4" -> 4
      [] w = "5" -> 5 [] w = "+1" -> 1 [] w = "+2" -> 2 [] w = "+3" -> 3
      [] OTHER -> NoneInt

\* character length of a token as the source text spells it
WordLen(w) ==
    CASE w \in {"a", ",", ":"} -> 1
      [] w \in NumTokens -> 1
      [] w \in {"it", "if", "to", "of", "+1", "+2", "+3", "go", "ok"} -> 2
      [] OTHER -> 3

RECURSIVE SplitLines(_, _)
\* re.split(r'[\n\.]+', rules_text): the runs of words between separators
SplitLines(text, cur) ==
    IF text = <<>> THEN <<cur>>
    ELSE IF Head(text) \in Separators THEN <<cur>> \o SplitLines(Tail(text), <<>>)
    ELSE SplitLines(Tail(text), Append(cur, Head(text)))

\* len(line.strip()): the words joined by single blanks
LineLen(line) ==
    IF line = <<>> THEN 0
    ELSE SumSeq([i \in 1..Len(line) |-> WordLen(line[i])]) + (Len(line) - 1)

Has(line, w) == \E i \in 1..Len(line) : line[i] = w

HasAny(line, ws) == \E i \in 1..Len(line) : line[i] \in ws

\* the words of p occur in line one after the other
HasPhrase(line, p) ==
    \E i \in 1..(Len(line) - Len(p) + 1) :
        \A j \in 1..Len(p) : line[i + j - 1] = p[j]

\* r'when (?:this|.*?) <verbs> <tails>': "when", later a verb, directly
\* followed by one of the tails (a tail is a sequence of words)
WhenVerb(line, whens, verbs, tails) ==
    \E i \in 1..Len(line) : \E j \in (i + 1)..Len(line) :
        /\ line[i] \in whens
        /\ line[j] \in verbs
        /\ \E t \in tails :
              /\ j + Len(t) <= Len(line)
              /\ \A k \in 1..Len(t) : line[j + k] = t[k]

StartsWith(line, ws) == line # <<>> /\ line[1] \in ws

\* a word followed directly by a number token
WordThenNum(line, ws, nums) ==
    \E i \in 1..(Len(line) - 1) : line[i] \in ws /\ line[i + 1] \in nums

TriggeredType(line) ==
    CASE WhenVerb(line, {"when"}, {"enters", "enter"},
                  {<<"the", "battlefield">>, <<"play">>})
           \/ Has(line, "etb") \/ HasPhrase(line, <<"on", "entry">>)
             -> "enters_battlefield"
      [] WhenVerb(line, {"when"}, {"leaves", "leave"},
                  {<<"the", "battlefield">>, <<"play">>})
           \/ WhenVerb(line, {"when"}, {"removed"}, {<<>>})
             -> "leaves_battlefield"
      [] WhenVerb(line, {"when"}, {"dies", "die", "destroyed"}, {<<>>})
             -> "dies"
      [] WhenVerb(line, {"when", "whenever"}, {"attacks", "attack"}, {<<>>})
           \/ HasPhrase(line, <<"on", "attack">>)
             -> "attacks"
      [] WhenVerb(line, {"when", "whenever"}, {"blocks", "block"}, {<<>>})
           \/ HasPhrase(line, <<"on", "block">>)
             -> "blocks"
      [] WhenVerb(line, {"when", "whenever"}, {"deals", "deal"}, {<<"damage">>})
             -> "deals_damage"
      [] WhenVerb(line, {"when", "whenever"}, {"takes", "take"}, {<<"damage">>})
           \/ WhenVerb(line, {"when", "whenever"}, {"is"}, {<<"dealt", "damage">>})
             -> "takes_damage"
      [] \E s \in {"start", "beginning"} : \E y \in {"your", "each"} :
            HasPhrase(line, <<"at", "the", s, "of", y, "turn">>)
             -> "start_of_turn"
      [] \E y \in {"your", "each"} :
            HasPhrase(line, <<"at", "the", "end", "of", y, "turn">>)
             -> "end_of_turn"
      [] OTHER -> "none"

ActivatedType(line) ==
    CASE StartsWith(line, {"tap", "{t}"}) -> "tap_ability"
      [] StartsWith(line, {"exhaust"}) -> "exhaust_ability"
      [] StartsWith(line, {"sacrifice"}) -> "sacrifice_ability"
      [] (Len(line) >= 2 /\ line[1] = "pay" /\ line[2] \in NumTokens)
           \/ (Len(line) >= 2 /\ line[1] \in NumTokens /\ line[2] = "energy")
             -> "pay_cost_ability"
      [] OTHER -> "none"

StaticType(line) ==
    CASE (\E u \in {"units", "unit"} : \E g \in {"get", "have", "gain"} :
            \E p \in PlusTokens :
              \/ HasPhrase(line, <<"your", u, g, p>>)
              \/ HasPhrase(line, <<"you", "control", u, g, p>>))
           \/ (\E u \in {"units", "unit"} : \E g \in {"get", "have"} :
                 \E p \in PlusTokens : HasPhrase(line, <<u, "you", "control", g, p>>))
             -> "static_buff"
      [] (\E s \in {"spells", "spell", "cards", "card"} :
            \E c \in {"cost", "costs"} : \E n \in NumTokens :
              \/ HasPhrase(line, <<s, c, n, "less">>)
              \/ HasPhrase(line, <<s, "you", "cast", c, n, "less">>))
           \/ HasPhrase(line, <<"reduce", "the", "cost">>)
           \/ HasPhrase(line, <<"reduce", "cost">>)
             -> "cost_reduction"
      [] (\E t \in {"targeted", "destroyed", "blocked"} :
            HasPhrase(line, <<"can't", "be", t>>))
           \/ (\E h \in {"has", "ha"} : HasPhrase(line, <<h, "protection">>))
           \/ Has(line, "hexproof") \/ Has(line, "shroud")
             -> "protection"
      [] (\E u \in {"units", "unit"} :
            \E i \in 1..(Len(line) - 4) :
               /\ line[i] = u /\ line[i + 1] = "you"
               /\ line[i + 2] = "control" /\ line[i + 3] = "have")
             -> "aura"
      [] OTHER -> "none"

EffectType(line) ==
    CASE (\E t \in {"target", "all", "each"} : HasPhrase(line, <<"destroy", t>>))
             -> "destroy"
      [] (\E d \in {"deal", "deals"} : \E n \in NumTokens :
            HasPhrase(line, <<d, n, "damage">>))
             -> "damage"
      [] HasPhrase(line, <<"return", "target", "to", "hand">>)
           \/ HasPhrase(line, <<"return", "it", "to", "hand">>)
           \/ HasPhrase(line, <<"return", "target", "to", "its", "owner's", "hand">>)
           \/ HasPhrase(line, <<"return", "it", "to", "its", "owner's", "hand">>)
             -> "bounce"
      [] HasPhrase(line, <<"draw", "a", "card">>)
           \/ (\E n \in NumTokens : \E c \in {"card", "cards"} :
                 HasPhrase(line, <<"draw", n, c>>))
             -> "draw_cards"
      [] (\E g \in {"gets", "get"} : \E p \in PlusTokens :
            HasPhrase(line, <<"unit", g, p>>))
             -> "buff_target"
      [] HasPhrase(line, <<"counter", "target">>)
             -> "counter"
      [] OTHER -> "none"

\* _extract_target: the first substring test that succeeds
ExtractTarget(line) ==
    CASE HasPhrase(line, <<"target", "unit">>) \/ HasPhrase(line, <<"target", "units">>)
             -> "target_unit"
      [] HasPhrase(line, <<"target", "spell">>) -> "target_spell"
      [] HasPhrase(line, <<"target", "player">>) \/ HasPhrase(line, <<"target", "opponent">>)
             -> "target_player"
      [] HasPhrase(line, <<"all", "units">>) \/ HasPhrase(line, <<"each", "unit">>)
           \/ HasPhrase(line, <<"each", "units">>)
             -> "all_units"
      [] HasPhrase(line, <<"your", "units">>) \/ HasPhrase(line, <<"units", "you", "control">>)
             -> "your_units"
      [] HasAny(line, {"opponent", "opponent's", "opponents"}) /\ Has(line, "units")
             -> "opponent_units"
      [] HasPhrase(line, <<"your", "legend">>) -> "your_legend"
      [] HasPhrase(line, <<"opponent's", "legend">>) \/ HasPhrase(line, <<"enemy", "legend">>)
             -> "opponent_legend"
      [] Has(line, "this") \/ StartsWith(line, {"it"}) -> "self"
      [] OTHER -> "none"

RECURSIVE FirstNumAfter(_, _, _)
\* the number of the first place where a word of ws is followed by a
\* token of nums (and, when tail is a word, that one by tail)
FirstNumAfter(line, ws, tail) ==
    IF Len(line) < 2 THEN NoneInt
    ELSE IF /\ line[1] \in ws /\ line[2] \in NumTokens
            /\ (tail = "" \/ (Len(line) >= 3 /\ line[3] = tail))
         THEN NumOf(line[2])
    ELSE FirstNumAfter(Tail(line), ws, tail)

RECURSIVE FirstPlus(_)
FirstPlus(line) ==
    IF line = <<>> THEN NoneInt
    ELSE IF Head(line) \in PlusTokens THEN NumOf(Head(line))
    ELSE FirstPlus(Tail(line))

\* _extract_number_value: +N, then deal N damage, then draw N, then cost N less
ExtractNumberValue(line) ==
    IF FirstPlus(line) # NoneInt THEN FirstPlus(line)
    ELSE IF FirstNumAfter(line, {"deal", "deals"}, "damage") # NoneInt
         THEN FirstNumAfter(line, {"deal", "deals"}, "damage")
    ELSE IF FirstNumAfter(line, {"draw"}, "") # NoneInt
         THEN FirstNumAfter(line, {"draw"}, "")
    ELSE FirstNumAfter(line, {"cost", "costs"}, "less")

CommonKeywords == {"assault", "guard", "flying", "overwhelm", "lifesteal",
                   "quick", "ambush", "hexproof", "protection"}

ExtractKeywordsGranted(line) == {k \in CommonKeywords : Has(line, k)}

Ability(type, line, target, timing, value, kws) ==
    [ability_type |-> type, raw_text |-> line, effect_target |-> target,
     timing |-> timing, effect_value |-> value, keywords_granted |-> kws]

\* AbilityParser._parse_ability_line: the first category that matches
ParseAbilityLine(line) ==
    IF TriggeredType(line) # "none"
    THEN Ability(TriggeredType(line), line, ExtractTarget(line), "on_trigger",
                 ExtractNumberValue(line), ExtractKeywordsGranted(line))
    ELSE IF ActivatedType(line) # "none"
    THEN Ability(ActivatedType(line), line, ExtractTarget(line),
                 IF Has(line, "instant") \/ HasPhrase(line, <<"any", "time">>)
                 THEN "instant" ELSE "main_phase",
                 ExtractNumberValue(line), {})
    ELSE IF StaticType(line) # "none"
    THEN Ability(StaticType(line), line, ExtractTarget(line), "always",
                 ExtractNumberValue(line), ExtractKeywordsGranted(line))
    ELSE IF EffectType(line) # "none"
    THEN Ability(EffectType(line), line, ExtractTarget(line),
                 IF Has(line, "instant") \/ EffectType(line) = "counter"
                 THEN "instant" ELSE "main_phase",
                 ExtractNumberValue(line), {})
    ELSE IF HasPhrase(line, <<"choose", "one">>) \/ HasPhrase(line, <<"choose", "two">>)
    THEN Ability("choose_effect", line, "none", "main_phase", NoneInt, {})
    ELSE IF HasAny(line, {"legend", "legend's", "legendary"})
    THEN Ability("legend_interaction", line, "none", "always", NoneInt, {})
    ELSE Ability("static_buff", line, "none", "always", NoneInt, {})

\* parse_rules_text dropping only the fragments shorter than 2 characters
parse_rules_text_min_two(rules_text) ==
    IF rules_text = <<>> THEN <<>>
    ELSE LET lines == SplitLines(rules_text, <<>>)
             keep == {i \in 1..Len(lines) : LineLen(lines[i]) >= 2}
             idx == SelectIdx(1, Len(lines), keep)
         IN  [i \in 1..Len(idx) |-> ParseAbilityLine(lines[idx[i]])]

\* AbilityParser.parse_rules_text
ParseRulesText(rules_text) ==
    IF rules_text = <<>> THEN <<>>
    ELSE LET lines == SplitLines(rules_text, <<>>)
             keep == {i \in 1..Len(lines) : LineLen(lines[i]) >= 3}
             idx == SelectIdx(1, Len(lines), keep)
         IN  [i \in 1..Len(idx) |-> ParseAbilityLine(lines[idx[i]])]

----------------------------------------------------------------------------
(* card_db.py, game_state.py, card_utils.py: the catalog and the cards *)

NoCard == "no_card"

Rec(id, name, type, domain, cost, might, kws, tags, text) ==
    [card_id |-> id, name |-> name, card_type |-> type, domain |-> domain,
     energy_cost |-> cost, power_cost |-> 0, might |-> might, keywords |-> kws,
     tags |-> tags, rules_text |-> text]

\* CardRecord rows of cards.db, by card_id
CatalogIds ==
    {"A", "B", "C", "D", "E", "F", "G", "H", "K", "M", "N", "P", "Q", "R", "S", "T", "U", "V",
     "W", "Z", "L", "Y", "O"}

Catalog(id) ==
    CASE id = "A" -> Rec("A", "scout", "unit", "fury", 1, 2, {}, {}, <<>>)
      [] id = "B" -> Rec("B", "warden", "unit", "fury", 2, 3, {"guard"}, {}, <<>>)
      [] id = "C" -> Rec("C", "smite", "spell", "order", 3, NoneInt, {}, {"removal"},
                         <<"destroy", "target", "unit", ".">>)
      [] id = "D" -> Rec("D", "giant", "unit", "fury", 4, 4, {}, {"warrior"}, <<>>)
      [] id = "E" -> Rec("E", "insight", "spell", "mind", 4, NoneInt, {}, {"draw"},
                         <<"draw", "a", "card", ".">>)
      [] id = "F" -> [Rec("F", "acolyte", "unit", "fury", 1, 1, {}, {}, <<>>)
                         EXCEPT !.power_cost = 1]
      [] id = "G" -> Rec("G", "blade", "gear", "fury", 1, NoneInt, {}, {},
                         <<"equipped", "unit", "gets", "+1", ".">>)
      [] id = "H" -> Rec("H", "colossus", "unit", "calm", 5, 7,
                         {"overwhelm", "assault"}, {}, <<>>)
      [] id = "K" -> Rec("K", "captain", "unit", "fury", 2, 4, {"assault"}, {},
                         <<"when", "this", "attacks", ",", "scout", "gets", "+1", ".">>)
      [] id = "M" -> Rec("M", "squire", "unit", "fury", 1, 1, {}, {},
                         <<"when", "herald", "attacks", ",", "this", "gets", "+1", ".">>)
      [] id = "N" -> Rec("N", "herald", "unit", "fury", 1, 2, {}, {},
                         <<"when", "squire", "attacks", ",", "this", "gets", "+1", ".">>)
      [] id = "P" -> [Rec("P", "adept", "unit", "fury", 2, 3, {}, {}, <<>>)
                         EXCEPT !.power_cost = 1]
      [] id = "Q" -> Rec("Q", "banner", "gear", "fury", 3, NoneInt, {"quick"}, {},
                         <<"your", "units", "get", "+2", "and", "have", "guard", ".">>)
      [] id = "R" -> Rec("R", "banish", "spell", "order", 2, NoneInt, {}, {"removal"},
                         <<"destroy", "target", "unit", ".">>)
      [] id = "S" -> Rec("S", "knight", "unit", "fury", 3, 3, {}, {}, <<>>)
      [] id = "T" -> Rec("T", "militia", "unit", "calm", 3, 2, {}, {},
                         <<"when", "this", "dies", ",", "draw", "2", "cards", ".">>)
      [] id = "U" -> Rec("U", "scholar", "unit", "mind", 2, 1, {}, {},
                         <<"when", "this", "enters", "the", "battlefield", ",",
                           "draw", "2", "cards", ".">>)
      [] id = "V" -> Rec("V", "executioner", "unit", "order", 3, 2, {}, {},
                         <<"when", "this", "enters", "the", "battlefield", ",",
                           "destroy", "target", "unit", ".">>)
      [] id = "W" -> Rec("W", "recruit", "unit", "fury", 2, 1, {}, {}, <<>>)
      [] id = "Z" -> Rec("Z", "spark", "spell", "mind", 0, NoneInt, {"fast"}, {"damage"},
                         <<"deal", "1", "damage", "to", "target", "unit", ".">>)
      [] id = "L" -> Rec("L", "yasuo", "legend", "fury", 0, NoneInt, {}, {"warrior"},
                         <<"exhaust", ":", "ready", "target", "unit", ".">>)
      [] id = "Y" -> Rec("Y", "garen", "legend", "fury", 0, NoneInt, {}, {},
                         <<"exhaust", ":", "target", "unit", "gets", "+1", "might", ".",
                           "nl", "your", "units", "have", "guard", ".">>)
      [] id = "O" -> Rec("O", "darius", "legend", "order", 0, NoneInt, {}, {},
                         <<"whenever", "a", "unit", "enters", ",", "deal", "1", "damage",
                           "to", "it", ".", "nl", "tap", ":", "destroy", "target",
                           "gear", ".">>)

\* card_db.get_card finds a row
in_catalog(id) == id \in CatalogIds

\* card_db.get_card
get_card(id) == IF in_catalog(id) THEN Catalog(id) ELSE NoCard

\* CardInHand: the record's fields plus the parsed_abilities cache
CardInHand(rec, parsed) ==
    [card_id |-> rec.card_id, name |-> rec.name, card_type |-> rec.card_type,
     domain |-> rec.domain, energy_cost |-> rec.energy_cost,
     power_cost |-> rec.power_cost, might |-> rec.might,
     keywords |-> rec.keywords, tags |-> rec.tags, rules_text |-> rec.rules_text,
     parsed_abilities |-> parsed]

\* CardInHand.parse_abilities
parse_abilities(card) ==
    IF card.rules_text # <<>>
    THEN [card EXCEPT !.parsed_abilities = ParseRulesText(card.rules_text)]
    ELSE card

\* card_utils.card_record_to_hand_card
card_record_to_hand_card(rec) == parse_abilities(CardInHand(rec, <<>>))

\* "if not card.parsed_abilities and card.rules_text: card.parse_abilities()"
EnsureParsed(card) ==
    IF card.parsed_abilities = <<>> /\ card.rules_text # <<>>
    THEN parse_abilities(card) ELSE card

----------------------------------------------------------------------------
(* mulligan_advisor.py *)

AbilityTypes(card) ==
    {card.parsed_abilities[i].ability_type : i \in 1..Len(card.parsed_abilities)}

HasAbility(card, types) == AbilityTypes(card) \cap types # {}

\* next((a.effect_value for a in parsed if a.ability_type == type), dflt)
FirstValueOf(card, type, dflt) ==
    LET idx == {i \in 1..Len(card.parsed_abilities) :
                   card.parsed_abilities[i].ability_type = type}
    IN  IF idx = {} THEN dflt
        ELSE card.parsed_abilities[CHOOSE i \in idx : \A j \in idx : i <= j].effect_value

\* "x and x.effect_value": the value is neither None nor 0
Truthy(v) == v # NoneInt /\ v # 0

RemovalTypes == {"destroy", "damage", "exile", "bounce"}
BuffTypes == {"buff_target", "buff_self"}

\* analyze_hand_composition, after its parsing loop
analyze_hand_composition(h) ==
    LET IsCheapUnit(c) == c.card_type = "unit" /\ c.energy_cost <= 2
        IsSpell(c) == c.card_type = "spell"
        IsGear(c) == c.card_type = "gear"
        IsHigh(c) == c.energy_cost >= 4
        IsRemoval(c) == c.card_type \in {"spell", "gear"} /\ HasAbility(c, RemovalTypes)
    IN  [cheap_unit_count |-> Len(SelectSeq(h, IsCheapUnit)),
         spell_count |-> Len(SelectSeq(h, IsSpell)),
         gear_count |-> Len(SelectSeq(h, IsGear)),
         high_cost_count |-> Len(SelectSeq(h, IsHigh)),
         removal_count |-> Len(SelectSeq(h, IsRemoval))]

\* analyze_rune_curve: the ids of the cards that cost 3 or more and whose
\* domain has at most one source among the hand and the legend
analyze_rune_curve(h, legend) ==
    LET sources(d) == Len(SelectSeq(h, LAMBDA c : c.domain = d))
                      + (IF legend # NoCard /\ Catalog(legend).domain = d THEN 1 ELSE 0)
    IN  [dead_cards |-> {h[i].card_id : i \in {j \in 1..Len(h) :
                            h[j].energy_cost >= 3 /\ sources(h[j].domain) <= 1}}]

\* identify_legend_synergies: the ids of the cards that name the legend or
\* its domain or one of its keywords in their text, or share a tag with it
identify_legend_synergies(h, legend) ==
    IF legend = NoCard THEN {}
    ELSE LET L == Catalog(legend)
             syn(c) ==
                \/ c.rules_text # <<>> /\ Has(c.rules_text, L.name)
                \/ c.rules_text # <<>> /\ Has(c.rules_text, L.domain)
                \/ L.tags \cap c.tags # {}
                \/ c.rules_text # <<>> /\ \E k \in L.keywords : Has(c.rules_text, k)
         IN  {h[i].card_id : i \in {j \in 1..Len(h) : syn(h[j])}}

PremiumKeywords == {"assault", "guard", "ambush", "flying", "lifesteal", "double strike"}

\* _get_premium_keywords
get_premium_keywords(kws) == kws \cap PremiumKeywords

Keep(reason) == [keep |-> TRUE, reason |-> reason, err |-> FALSE]
Mull(reason) == [keep |-> FALSE, reason |-> reason, err |-> FALSE]
\* a comparison of None with an int: Python raises TypeError
Raise == [keep |-> FALSE, reason |-> "TypeError", err |-> TRUE]

\* _evaluate_unit
evaluate_unit(card, cheap, kept3, has_legend_synergy, first) ==
    LET cost == card.energy_cost
        might == IF card.might = NoneInt THEN 0 ELSE card.might
        premium == get_premium_keywords(card.keywords)
    IN  IF cost <= 2 THEN
            IF HasAbility(card, {"enters_battlefield"}) THEN Keep("cheap_etb")
            ELSE IF premium # {} THEN Keep("cheap_premium")
            ELSE IF might >= cost + 1 THEN Keep("cheap_efficient")
            ELSE Keep("cheap_unit")
        ELSE IF cost = 3 THEN
            IF ~kept3 THEN
                IF HasAbility(card, {"static_buff"}) THEN Keep("three_cost_static")
                ELSE IF might >= 3 THEN Keep("three_cost_strong")
                ELSE IF card.keywords # {} THEN Keep("three_cost_keywords")
                ELSE IF cheap >= 2 THEN Keep("three_cost_acceptable")
                ELSE Mull("three_cost_weak")
            ELSE Mull("additional_three_cost")
        ELSE
            IF has_legend_synergy THEN Keep("high_cost_legend_synergy")
            ELSE IF might >= cost + 2 /\ cheap >= 2 THEN Keep("premium_unit")
            ELSE IF Cardinality(premium) >= 2 /\ cheap >= 2 THEN Keep("high_impact")
            ELSE IF ~first /\ cost = 4 /\ might >= 4 /\ cheap >= 2
                 THEN Keep("four_drop_second")
            ELSE Mull("high_cost_unit")

\* _evaluate_non_unit
evaluate_non_unit(card, comp, has_legend_synergy) ==
    LET cost == card.energy_cost
        noab == card.parsed_abilities = <<>>
        cheap == comp.cheap_unit_count
        is_removal == IF noab THEN card.tags \cap {"removal", "destroy", "damage"} # {}
                      ELSE HasAbility(card, RemovalTypes)
        is_draw == IF noab THEN card.tags \cap {"draw", "cycle"} # {}
                   ELSE HasAbility(card, {"draw_cards"})
        is_combat_trick ==
            \/ \E i \in 1..Len(card.parsed_abilities) :
                  \/ card.parsed_abilities[i].timing = "instant"
                  \/ card.parsed_abilities[i].ability_type \in BuffTypes
            \/ card.keywords \cap {"ambush", "fast"} # {}
        is_board_wipe ==
            \E i \in 1..Len(card.parsed_abilities) :
                /\ card.parsed_abilities[i].ability_type = "destroy"
                /\ card.parsed_abilities[i].effect_target \in {"all_units", "opponent_units"}
        draw_count == FirstValueOf(card, "draw_cards", 1)
        high_damage ==
            \E i \in 1..Len(card.parsed_abilities) :
                /\ card.parsed_abilities[i].ability_type = "damage"
                /\ Truthy(card.parsed_abilities[i].effect_value)
                /\ card.parsed_abilities[i].effect_value >= 4
    IN  IF cost = 0 THEN
            IF is_removal THEN Keep("zero_cost_removal")
            ELSE IF is_draw THEN Keep("zero_cost_draw")
            ELSE Keep("zero_cost_spell")
        ELSE IF cost = 1 THEN
            IF is_removal THEN Keep("cheap_removal_1")
            ELSE IF is_draw THEN
                IF draw_count = NoneInt THEN Raise
                ELSE IF draw_count >= 2 THEN Keep("cheap_cantrip")
                ELSE Keep("cheap_draw")
            ELSE IF is_combat_trick THEN Keep("fast_spell_1")
            ELSE Keep("cheap_utility_1")
        ELSE IF cost = 2 THEN
            IF is_removal THEN Keep("cheap_removal_2")
            ELSE IF is_draw /\ comp.spell_count <= 2 THEN Keep("card_draw_2")
            ELSE IF is_draw /\ draw_count = NoneInt THEN Raise
            ELSE IF is_draw /\ draw_count >= 2 THEN Keep("strong_card_draw_2")
            ELSE IF has_legend_synergy THEN Keep("two_cost_legend_synergy")
            ELSE IF card.card_type = "gear" /\ cheap >= 1 THEN Keep("cheap_gear")
            ELSE IF comp.spell_count >= 2 /\ cheap = 0 THEN Mull("spell_unit_light")
            ELSE Keep("cheap_utility_2")
        ELSE
            IF has_legend_synergy THEN Keep("expensive_legend_synergy")
            ELSE IF is_board_wipe /\ cost <= 4 /\ cheap >= 2 THEN Keep("board_wipe")
            ELSE IF cost <= 4 /\ is_removal /\ cheap >= 2 /\ comp.removal_count = 0
                 THEN Keep(IF HasAbility(card, {"destroy"}) THEN "unconditional_removal"
                           ELSE IF high_damage THEN "high_damage_removal"
                           ELSE "mid_cost_removal")
            ELSE IF cost = 3 /\ is_combat_trick /\ cheap >= 2 THEN Keep("combat_trick")
            ELSE IF is_draw /\ cost <= 4 /\ draw_count = NoneInt THEN Raise
            ELSE IF is_draw /\ cost <= 4 /\ draw_count >= 3 /\ cheap >= 1
                 THEN Keep("powerful_draw")
            ELSE IF HasAbility(card, {"protection"}) /\ cost <= 3 /\ cheap >= 2
                 THEN Keep("protection_spell")
            ELSE IF comp.high_cost_count >= 2 THEN Mull("expensive_top_heavy")
            ELSE IF cheap = 0 /\ cost >= 3 THEN Mull("expensive_no_early_game")
            ELSE IF card.card_type = "gear" /\ cheap = 0 THEN Mull("expensive_gear")
            ELSE Mull("expensive_too_slow")

\* evaluate_card_for_mulligan
evaluate_card_for_mulligan(card, comp, dead, kept3, synergy, first) ==
    IF card.card_id \in dead /\ card.energy_cost >= 3 THEN Mull("off_domain_expensive")
    ELSE IF card.card_type = "unit"
         THEN evaluate_unit(card, comp.cheap_unit_count, kept3,
                            card.card_id \in synergy, first)
    ELSE evaluate_non_unit(card, comp, card.card_id \in synergy)

\* _calculate_mulligan_priority: the higher, the sooner mulliganed
calculate_mulligan_priority(card) ==
    LET base == IF card.energy_cost <= 3 THEN card.energy_cost * 10
                ELSE card.energy_cost * 15
        type == IF card.card_type = "spell" THEN 5
                ELSE IF card.card_type = "gear" THEN 3 ELSE 0
        stats == IF card.card_type = "unit" /\ card.might # NoneInt
                 THEN IF card.might < card.energy_cost THEN 10
                      ELSE IF card.might = card.energy_cost THEN 3
                      ELSE IF card.might >= card.energy_cost + 2 THEN -5
                      ELSE 0
                 ELSE 0
        prem == Cardinality(get_premium_keywords(card.keywords)) * 5
        nokw == IF card.keywords = {} THEN 3 ELSE 0
    IN  base + type + stats - prem + nokw

\* next((c for c in hand if c.card_id == id), None): the first card of that id
CardById(h, id) ==
    LET idx == {i \in 1..Len(h) : h[i].card_id = id}
    IN  h[CHOOSE i \in idx : \A j \in idx : i <= j]

\* the positions of ds (within pos, in list order) sorted by key, descending
Ranked(ds, h, pos, sign) ==
    LET idx == SelectIdx(1, Len(ds), pos)
    IN  SortDesc([i \in 1..Len(idx) |->
            [k |-> sign * calculate_mulligan_priority(CardById(h, ds[idx[i]].card_id)),
             v |-> idx[i]]])

MaxMulligans == 2

\* _enforce_mulligan_limit keeping one card too few
enforce_mulligan_limit_off_by_one(ds, h, max_mulligans) ==
    LET to_mulligan == {i \in 1..Len(ds) : ~ds[i].keep}
        ranked == Ranked(ds, h, to_mulligan, 1)
        forced_keeps == {ranked[i].v : i \in (max_mulligans + 2)..Len(ranked)}
    IN  [i \in 1..Len(ds) |->
            IF i \in forced_keeps
            THEN [ds[i] EXCEPT !.keep = TRUE, !.reason = "kept_due_to_2_card_limit"]
            ELSE ds[i]]

\* the limit pass with the best cards, not the worst, left to mulligan
enforce_mulligan_limit_best_first(ds, h, max_mulligans) ==
    LET to_mulligan == {i \in 1..Len(ds) : ~ds[i].keep}
        ranked == Ranked(ds, h, to_mulligan, -1)
        forced_keeps == {ranked[i].v : i \in (max_mulligans + 1)..Len(ranked)}
    IN  IF Cardinality(to_mulligan) <= max_mulligans THEN ds
        ELSE [i \in 1..Len(ds) |->
                IF i \in forced_keeps
                THEN [ds[i] EXCEPT !.keep = TRUE, !.reason = "kept_due_to_2_card_limit"]
                ELSE ds[i]]

\* _enforce_mulligan_limit
enforce_mulligan_limit(ds, h, max_mulligans) ==
    LET to_mulligan == {i \in 1..Len(ds) : ~ds[i].keep}
        ranked == Ranked(ds, h, to_mulligan, 1)
        forced_keeps == {ranked[i].v : i \in (max_mulligans + 1)..Len(ranked)}
    IN  IF Cardinality(to_mulligan) <= max_mulligans THEN ds
        ELSE [i \in 1..Len(ds) |->
                IF i \in forced_keeps
                THEN [ds[i] EXCEPT !.keep = TRUE, !.reason = "kept_due_to_2_card_limit"]
                ELSE ds[i]]

\* _ensure_keep_at_least_one
ensure_keep_at_least_one(ds, h) ==
    LET ranked == Ranked(ds, h, 1..Len(ds), -1)
    IN  IF \E i \in 1..Len(ds) : ds[i].keep THEN ds
        ELSE [i \in 1..Len(ds) |->
                IF i = ranked[1].v
                THEN [ds[i] EXCEPT !.keep = TRUE, !.reason = "keeping_as_best_option"]
                ELSE ds[i]]

RECURSIVE EvaluateFrom(_, _, _, _, _, _, _)
\* the loop "for card in hand" of analyze_mulligan, from card i on: the
\* decisions, and whether an evaluation raised
EvaluateFrom(i, h, comp, dead, kept3, synergy, first) ==
    IF i > Len(h) THEN [raised |-> FALSE, ds |-> <<>>]
    ELSE LET r == evaluate_card_for_mulligan(h[i], comp, dead, kept3, synergy, first)
             k3 == kept3 \/ (r.keep /\ h[i].energy_cost = 3 /\ h[i].card_type = "unit")
             rest == EvaluateFrom(i + 1, h, comp, dead, k3, synergy, first)
         IN  IF r.err \/ rest.raised THEN [raised |-> TRUE, ds |-> <<>>]
             ELSE [raised |-> FALSE,
                   ds |-> <<[card_id |-> h[i].card_id, keep |-> r.keep,
                             reason |-> r.reason]>> \o rest.ds]

Kept3After(ds, h) ==
    \E i \in 1..Len(ds) : ds[i].keep /\ h[i].energy_cost = 3 /\ h[i].card_type = "unit"

NoComposition == [cheap_unit_count |-> 0, spell_count |-> 0, gear_count |-> 0,
                  high_cost_count |-> 0, removal_count |-> 0]
NoRunes == [dead_cards |-> {}]
NoResponse == [status |-> 0, decisions |-> <<>>, summary |-> "", mulligan_count |-> 0]

HandSize == 4

\* the negation of "len(hand) != 4"
valid_hand_size_lenient(h) == Len(h) <= HandSize
valid_hand_size(h) == Len(h) = HandSize

\* analyze_mulligan, lines 29-34: "if not hand"
RejectEmptyHand ==
    /\ pc = "start"
    /\ hand = <<>>
    /\ decisions' = <<>>
    /\ summary' = "No cards in hand to evaluate."
    /\ mulligan_count' = 0
    /\ pc' = "done"
    /\ UNCHANGED <<hand, hand0, legend_card, going_first, composition, rune_analysis,
                   kept_any_3_cost_unit, apiVars, playVars>>

\* analyze_mulligan, lines 36-41: "if len(hand) != 4"
RejectHandSize ==
    /\ pc = "start"
    /\ hand # <<>>
    /\ ~valid_hand_size(hand)
    /\ decisions' = <<>>
    /\ summary' = "Invalid hand size: expected 4 cards"
    /\ mulligan_count' = 0
    /\ pc' = "done"
    /\ UNCHANGED <<hand, hand0, legend_card, going_first, composition, rune_analysis,
                   kept_any_3_cost_unit, apiVars, playVars>>

\* analyze_mulligan, lines 43-62: the composition (which parses the cards),
\* the rune curve and the initial hand_state
AnalyzeHand ==
    /\ pc = "start"
    /\ hand # <<>>
    /\ valid_hand_size(hand)
    /\ hand' = [i \in 1..Len(hand) |-> EnsureParsed(hand[i])]
    /\ composition' = analyze_hand_composition(hand')
    /\ rune_analysis' = analyze_rune_curve(hand, legend_card)
    /\ kept_any_3_cost_unit' = FALSE
    /\ decisions' = <<>>
    /\ pc' = "evaluate"
    /\ UNCHANGED <<hand0, legend_card, going_first, mulligan_count, summary, apiVars, playVars>>

\* analyze_mulligan, lines 64-85: the evaluation loop
EvaluateHand ==
    /\ pc = "evaluate"
    /\ LET ds == EvaluateFrom(1, hand, composition, rune_analysis.dead_cards, FALSE,
                              identify_legend_synergies(hand, legend_card), going_first)
       IN  IF ds.raised
           THEN /\ pc' = "raised"
                /\ UNCHANGED <<decisions, kept_any_3_cost_unit>>
           ELSE /\ decisions' = ds.ds
                /\ kept_any_3_cost_unit' = Kept3After(ds.ds, hand)
                /\ pc' = "enforce"
    /\ UNCHANGED <<hand, hand0, legend_card, going_first, composition, rune_analysis,
                   mulligan_count, summary, apiVars, playVars>>

\* analyze_mulligan, line 88
EnforceMulliganLimit ==
    /\ pc = "enforce"
    /\ decisions' = enforce_mulligan_limit(decisions, hand, MaxMulligans)
    /\ pc' = "ensure"
    /\ UNCHANGED <<hand, hand0, legend_card, going_first, composition, rune_analysis,
                   kept_any_3_cost_unit, mulligan_count, summary, apiVars, playVars>>

\* analyze_mulligan, line 91
EnsureKeepAtLeastOne ==
    /\ pc = "ensure"
    /\ decisions' = ensure_keep_at_least_one(decisions, hand)
    /\ pc' = "count"
    /\ UNCHANGED <<hand, hand0, legend_card, going_first, composition, rune_analysis,
                   kept_any_3_cost_unit, mulligan_count, summary, apiVars, playVars>>

\* _generate_mulligan_summary: its leading part
generate_mulligan_summary(n) ==
    IF n = 0 THEN "Keep all 4 cards"
    ELSE IF n = 1 THEN "Mulligan 1 card"
    ELSE "Mulligan n cards (maximum allowed)"

\* analyze_mulligan, lines 93-103
ReturnAdvice ==
    /\ pc = "count"
    /\ mulligan_count' = Cardinality({i \in 1..Len(decisions) : ~decisions[i].keep})
    /\ summary' = generate_mulligan_summary(mulligan_count')
    /\ pc' = "done"
    /\ UNCHANGED <<hand, hand0, legend_card, going_first, composition, rune_analysis,
                   kept_any_3_cost_unit, decisions, apiVars, playVars>>

MulliganStep ==
    \/ RejectEmptyHand
    \/ RejectHandSize
    \/ AnalyzeHand
    \/ EvaluateHand
    \/ EnforceMulliganLimit
    \/ EnsureKeepAtLeastOne
    \/ ReturnAdvice

----------------------------------------------------------------------------
(* battlefield_analysis.py *)

\* BattlefieldState: a unit is its might, NoneInt where the lane has none
Lane(m, o) == [my_unit |-> m, opponent_unit |-> o]

Max(a, b) == IF a >= b THEN a ELSE b

\* the lane analysis with a tied lane counted as losing as well
analyze_battlefields_ties_lost(bfs) ==
    LET mine(b) == b.my_unit # NoneInt
        theirs(b) == b.opponent_unit # NoneInt
        empty(b) == ~mine(b) /\ ~theirs(b)
        my_only(b) == mine(b) /\ ~theirs(b)
        op_only(b) == ~mine(b) /\ theirs(b)
        both(b) == mine(b) /\ theirs(b)
        winning(b) == both(b) /\ b.my_unit > b.opponent_unit
        losing(b) == both(b) /\ b.opponent_unit >= b.my_unit
        tied(b) == both(b) /\ b.opponent_unit = b.my_unit
    IN  [empty_battlefields |-> Len(SelectSeq(bfs, empty)),
         my_only_battlefields |-> Len(SelectSeq(bfs, my_only)),
         opponent_only_battlefields |-> Len(SelectSeq(bfs, op_only)),
         contested_battlefields |-> Len(SelectSeq(bfs, both)),
         my_units |-> Len(SelectSeq(bfs, mine)),
         opponent_units |-> Len(SelectSeq(bfs, theirs)),
         my_total_might |->
             SumSeq([i \in 1..Len(bfs) |-> IF mine(bfs[i]) THEN bfs[i].my_unit ELSE 0]),
         opponent_total_might |->
             SumSeq([i \in 1..Len(bfs) |->
                        IF theirs(bfs[i]) THEN bfs[i].opponent_unit ELSE 0]),
         winning_battlefields |-> Len(SelectSeq(bfs, winning)),
         losing_battlefields |-> Len(SelectSeq(bfs, losing)),
         tied_battlefields |-> Len(SelectSeq(bfs, tied)),
         highest_opponent_might |-> 0]

\* analyze_riftbound_battlefields
analyze_riftbound_battlefields(bfs) ==
    LET mine(b) == b.my_unit # NoneInt
        theirs(b) == b.opponent_unit # NoneInt
        empty(b) == ~mine(b) /\ ~theirs(b)
        my_only(b) == mine(b) /\ ~theirs(b)
        op_only(b) == ~mine(b) /\ theirs(b)
        both(b) == mine(b) /\ theirs(b)
        winning(b) == both(b) /\ b.my_unit > b.opponent_unit
        losing(b) == both(b) /\ b.opponent_unit > b.my_unit
        tied(b) == both(b) /\ b.opponent_unit = b.my_unit
    IN  [empty_battlefields |-> Len(SelectSeq(bfs, empty)),
         my_only_battlefields |-> Len(SelectSeq(bfs, my_only)),
         opponent_only_battlefields |-> Len(SelectSeq(bfs, op_only)),
         contested_battlefields |-> Len(SelectSeq(bfs, both)),
         my_units |-> Len(SelectSeq(bfs, mine)),
         opponent_units |-> Len(SelectSeq(bfs, theirs)),
         my_total_might |->
             SumSeq([i \in 1..Len(bfs) |-> IF mine(bfs[i]) THEN bfs[i].my_unit ELSE 0]),
         opponent_total_might |->
             SumSeq([i \in 1..Len(bfs) |->
                        IF theirs(bfs[i]) THEN bfs[i].opponent_unit ELSE 0]),
         winning_battlefields |-> Len(SelectSeq(bfs, winning)),
         losing_battlefields |-> Len(SelectSeq(bfs, losing)),
         tied_battlefields |-> Len(SelectSeq(bfs, tied)),
         highest_opponent_might |-> 0]

\* analyze_playable_cards: "battlefield_analysis['highest_opponent_might'] = max(...)"
highest_opponent_might(bfs) ==
    LET ms == {bfs[i].opponent_unit : i \in 1..Len(bfs)} \ {NoneInt}
    IN  IF ms = {} THEN 0 ELSE CHOOSE m \in ms : \A n \in ms : m >= n

\* assess_battlefield_threat_level
assess_battlefield_threat_level(a, opponent_health, my_health) ==
    IF a.opponent_only_battlefields = 2 THEN "critical"
    ELSE IF a.opponent_total_might - a.my_total_might >= 4 THEN "high"
    ELSE IF Truthy(my_health) /\ my_health <= 10 /\ a.opponent_units > 0 THEN "high"
    ELSE IF a.losing_battlefields >= 1 THEN "medium"
    ELSE "low"

----------------------------------------------------------------------------
(* playable_cards_advisor.py *)

\* the factor by which the float scores are multiplied
Scale == 60

\* my_power.get(domain, 0)
PowerOf(power, d) == IF d \in DOMAIN power THEN power[d] ELSE 0

\* _filter_playable_cards; cards carry no power_cost_by_rune
filter_playable_cards(h, energy, power) ==
    LET can_play(c) ==
            /\ c.energy_cost <= energy
            /\ ~(/\ c.power_cost > 0
                 /\ c.domain # "colorless"
                 /\ c.power_cost > PowerOf(power, c.domain))
    IN  SelectSeq(h, can_play)

\* _determine_game_phase
determine_game_phase(t) ==
    IF t <= 3 THEN "early" ELSE IF t <= 6 THEN "mid" ELSE "late"

\* the first position of the greatest key: what min() and max() return
FirstMax(keys) ==
    CHOOSE i \in 1..Len(keys) :
        /\ \A j \in 1..Len(keys) : keys[j] <= keys[i]
        /\ \A j \in 1..(i - 1) : keys[j] < keys[i]

Ids(cards) == [i \in 1..Len(cards) |-> cards[i].card_id]

\* _identify_card_dependencies
identify_card_dependencies(card, cards, bfs) ==
    LET has_unit_on_board == \E i \in 1..Len(bfs) : bfs[i].my_unit # NoneInt
        other_unit(c) == c.card_type = "unit" /\ c.card_id # card.card_id
        is_unit(c) == c.card_type = "unit"
        score(c) == (IF c.might = NoneInt THEN 0 ELSE c.might) + Cardinality(c.keywords)
        gear_units == SelectSeq(cards, other_unit)
        buff_units == SelectSeq(cards, is_unit)
        named(c) == c.card_id # card.card_id /\ Has(card.rules_text, c.name)
        gear == IF card.card_type = "gear" /\ ~has_unit_on_board /\ gear_units # <<>>
                THEN <<gear_units[FirstMax([i \in 1..Len(gear_units) |->
                                          0 - gear_units[i].energy_cost])].card_id>>
                ELSE <<>>
        buff == IF /\ card.card_type = "spell"
                   /\ card.tags \cap {"buff", "enchant"} # {}
                   /\ ~has_unit_on_board
                   /\ buff_units # <<>>
                THEN <<buff_units[FirstMax([i \in 1..Len(buff_units) |->
                                          score(buff_units[i])])].card_id>>
                ELSE <<>>
        combo == IF card.rules_text # <<>> THEN Ids(SelectSeq(cards, named)) ELSE <<>>
    IN  gear \o buff \o combo

\* keyword_values.get(keyword, 1)
KeywordValue(k) ==
    CASE k \in {"assault", "overwhelm"} -> 4
      [] k \in {"guard", "flying", "quick"} -> 3
      [] k \in {"ambush", "lifesteal"} -> 2
      [] k = "double strike" -> 5
      [] OTHER -> 1

RECURSIVE KeywordValues(_)
\* "for keyword in card.keywords: value += keyword_values.get(keyword, 1)"
KeywordValues(S) ==
    IF S = {} THEN 0
    ELSE LET x == CHOOSE y \in S : TRUE IN KeywordValue(x) + KeywordValues(S \ {x})

RemovalTags == {"removal", "destroy", "damage"}

\* _calculate_card_value; my_legend is accepted and never read, times Scale
calculate_card_value(card, t, a, my_legend) ==
    LET game_phase == determine_game_phase(t)
        stats == IF card.card_type = "unit" /\ Truthy(card.might)
                 THEN (card.might * 10 * Scale) \div Max(card.energy_cost, 1)
                      + card.might * (Scale \div 2)
                 ELSE 0
        kws == KeywordValues(card.keywords)
        early == IF game_phase = "early"
                 THEN IF card.energy_cost <= 2 THEN 5
                      ELSE IF card.energy_cost >= 4 THEN -3 ELSE 0
                 ELSE 0
        late == IF /\ game_phase = "late"
                   /\ card.card_type = "unit"
                   /\ card.might # NoneInt
                   /\ card.might >= 5
                THEN 4 ELSE 0
        removal == IF card.card_type = "spell" /\ card.tags \cap RemovalTags # {}
                   THEN a.opponent_units * 3
                        + (IF a.highest_opponent_might >= 4 THEN 3 ELSE 0)
                   ELSE 0
        draw == IF card.card_type = "spell" /\ "draw" \in card.tags
                THEN 2 + (IF game_phase = "late" THEN 2 ELSE 0)
                ELSE 0
        gear == IF card.card_type = "gear"
                THEN a.my_units * 2 + (IF a.contested_battlefields > 0 THEN 3 ELSE 0)
                ELSE 0
    IN  Max(stats + Scale * (kws + early + late + removal + draw + gear), 0)

\* the guard bonus of _calculate_play_priority without its threat condition
guard_bonus_unconditional(card, threat) ==
    IF card.card_type = "unit" /\ "guard" \in card.keywords THEN 10 ELSE 0

\* _calculate_play_priority: "Guard units are high priority when opponent threatens"
guard_bonus(card, threat) ==
    IF /\ card.card_type = "unit"
       /\ "guard" \in card.keywords
       /\ threat \in {"high", "critical"}
    THEN 10 ELSE 0

\* _calculate_play_priority, times Scale
calculate_play_priority(card, values, a, game_phase, threat, current_phase) ==
    LET base == IF card.card_id \in DOMAIN values THEN values[card.card_id] ELSE 0
        unit == IF card.card_type = "unit"
                THEN (IF a.empty_battlefields > 0 THEN 15 ELSE 0)
                     + (IF "assault" \in card.keywords /\ game_phase = "early"
                        THEN 8 ELSE 0)
                ELSE 0
        removal == IF card.card_type = "spell" /\ card.tags \cap RemovalTags # {}
                   THEN IF threat = "critical" THEN 20
                        ELSE IF threat = "high" THEN 12
                        ELSE IF a.opponent_units > 0 THEN 5 ELSE 0
                   ELSE 0
        fast == IF /\ card.card_type = "spell"
                   /\ "fast" \in card.keywords
                   /\ current_phase = "main"
                THEN -10 ELSE 0
        draw == IF /\ card.card_type = "spell"
                   /\ "draw" \in card.tags
                   /\ current_phase = "main"
                THEN 3 ELSE 0
        gear == IF card.card_type = "gear"
                THEN IF a.my_units > 0
                     THEN 8 + (IF a.contested_battlefields > 0 THEN 5 ELSE 0)
                     ELSE -10
                ELSE 0
        cheap == IF card.energy_cost <= 2 THEN 3 ELSE 0
        risky == IF game_phase = "early" /\ card.energy_cost >= 4 THEN -5 ELSE 0
    IN  base + Scale * (unit + guard_bonus(card, threat) + removal + fast + draw
                        + gear + cheap + risky)

\* _select_battlefield_for_unit: a 0-based lane index, or NoneInt
select_battlefield_for_unit(unit, bfs) ==
    LET unit_might == IF unit.might = NoneInt THEN 0 ELSE unit.might
        open == {i \in 1..Len(bfs) : bfs[i].my_unit = NoneInt}
        score(i) ==
            (IF bfs[i].opponent_unit = NoneInt THEN 10
             ELSE IF unit_might > bfs[i].opponent_unit THEN 20
             ELSE IF unit_might = bfs[i].opponent_unit THEN 15
             ELSE 5)
            + (IF "guard" \in unit.keywords /\ bfs[i].opponent_unit # NoneInt
               THEN 5 ELSE 0)
            + (IF "assault" \in unit.keywords /\ bfs[i].opponent_unit = NoneInt
               THEN 3 ELSE 0)
    IN  IF open = {} THEN NoneInt
        ELSE (CHOOSE i \in open :
                 /\ \A j \in open : score(j) <= score(i)
                 /\ \A j \in open : j < i => score(j) < score(i)) - 1

\* _generate_step_reason, without its "Step n:" prefix
generate_step_reason(card, deps, a) ==
    IF deps # <<>> THEN "Play after dependencies met"
    ELSE IF card.card_type = "unit"
    THEN IF a.empty_battlefields > 0 THEN "Develop board presence"
         ELSE IF a.opponent_only_battlefields > 0 THEN "Contest opponent's battlefield"
         ELSE "Strengthen battlefield position"
    ELSE IF card.card_type = "spell"
    THEN IF card.tags \cap {"removal", "destroy"} # {} THEN "Remove opponent threat"
         ELSE IF "buff" \in card.tags THEN "Enhance existing unit"
         ELSE IF "draw" \in card.tags THEN "Refill resources"
         ELSE "Cast utility spell"
    ELSE IF card.card_type = "gear" THEN "Equip gear to strengthen unit"
    ELSE "Play card"

\* _assess_sequence_risk; efficiency = cumulative_energy / my_energy, or 0.0
assess_sequence_risk(total, energy, game_phase) ==
    IF energy > 0 /\ 10 * total >= 9 * energy
    THEN IF game_phase = "early" THEN "moderate" ELSE "aggressive"
    ELSE IF energy > 0 /\ 10 * total >= 7 * energy THEN "moderate"
    ELSE "safe"

\* the affordability test made before the card's cost is added
can_afford_before(cumulative_energy, cost, energy) == cumulative_energy <= energy

\* _build_optimal_sequence: "if cumulative_energy + card.energy_cost > my_energy: continue"
can_afford(cumulative_energy, cost, energy) == cumulative_energy + cost <= energy

\* the dependency test left out
deps_ignored(deps, played_cards) == TRUE

\* the dependencies taken as met once any card was played
deps_met_after_first(deps, played_cards) == deps = <<>> \/ played_cards # {}

\* _build_optimal_sequence: "all(dep_id in played_cards for dep_id in deps)"
deps_met(deps, played_cards) == \A i \in 1..Len(deps) : deps[i] \in played_cards

\* the cards left in the order of the hand
sort_by_hand_order(cards, card_priorities) == cards

\* _build_optimal_sequence: "sorted(cards, key=card_priorities[...], reverse=True)"
sort_by_priority(cards, card_priorities) ==
    LET s == SortDesc([i \in 1..Len(cards) |->
                 [k |-> card_priorities[cards[i].card_id], v |-> cards[i]]])
    IN  [i \in 1..Len(s) |-> s[i].v]

\* s without its i-th element
RemoveAt(s, i) == SubSeq(s, 1, i - 1) \o SubSeq(s, i + 1, Len(s))

RECURSIVE Schedule(_, _, _, _, _)
\* the while loop of _build_optimal_sequence; env holds what the loop reads
Schedule(sorted_cards, steps, played_cards, cumulative_energy, env) ==
    LET ok == {i \in 1..Len(sorted_cards) :
                  /\ can_afford(cumulative_energy, sorted_cards[i].energy_cost,
                                env.my_energy)
                  /\ deps_met(env.card_dependencies[sorted_cards[i].card_id],
                              played_cards)}
        i == CHOOSE k \in ok : \A j \in ok : k <= j
        card == sorted_cards[i]
        deps == env.card_dependencies[card.card_id]
        step == [card_id |-> card.card_id,
                 card_name |-> card.name,
                 step_number |-> Len(steps) + 1,
                 energy_cost |-> card.energy_cost,
                 cumulative_energy |-> cumulative_energy + card.energy_cost,
                 reason |-> generate_step_reason(card, deps, env.battlefield_analysis),
                 dependencies |-> deps,
                 battlefield_target |->
                     IF card.card_type = "unit"
                     THEN select_battlefield_for_unit(card, env.battlefields)
                     ELSE NoneInt]
    IN  IF sorted_cards = <<>> \/ cumulative_energy >= env.my_energy \/ ok = {}
        THEN steps
        ELSE Schedule(RemoveAt(sorted_cards, i), Append(steps, step),
                      played_cards \cup {card.card_id},
                      cumulative_energy + card.energy_cost, env)

\* the last card of the list with that id: what a dict keyed by card_id keeps
LastById(cards, id) ==
    LET idx == {i \in 1..Len(cards) : cards[i].card_id = id}
    IN  cards[CHOOSE i \in idx : \A j \in idx : i >= j]

\* _build_optimal_sequence
build_optimal_sequence(cards, values, a, game_phase, threat, current_phase, energy, bfs) ==
    LET ids == Range(Ids(cards))
        card_priorities ==
            [id \in ids |-> calculate_play_priority(LastById(cards, id), values, a,
                                game_phase, threat, current_phase)]
        card_dependencies ==
            [id \in ids |-> identify_card_dependencies(LastById(cards, id), cards, bfs)]
        env == [my_energy |-> energy, card_dependencies |-> card_dependencies,
                battlefield_analysis |-> a, battlefields |-> bfs]
        steps == Schedule(sort_by_priority(cards, card_priorities), <<>>, {}, 0, env)
        total == IF steps = <<>> THEN 0 ELSE steps[Len(steps)].cumulative_energy
    IN  [steps |-> steps, total_energy |-> total,
         risk_level |-> assess_sequence_risk(total, energy, game_phase)]

NoSequence == [steps |-> <<>>, total_energy |-> 0, risk_level |-> "safe"]

\* an alternative is kept whenever it has steps
keep_alternative_any(seq, primary) == seq.steps # <<>>

\* _generate_alternative_sequences: "if seq.steps and seq.total_energy != primary..."
keep_alternative(seq, primary) ==
    seq.steps # <<>> /\ seq.total_energy # primary.total_energy

\* _generate_alternative_sequences
generate_alternative_sequences(cards, values, a, game_phase, threat, current_phase, energy, bfs, primary) ==
    LET build(cs) == build_optimal_sequence(cs, values, a, game_phase, threat,
                                            current_phase, energy, bfs)
        cheap(c) == c.energy_cost <= 2
        is_unit(c) == c.card_type = "unit"
        cheap_cards == SelectSeq(cards, cheap)
        unit_cards == SelectSeq(cards, is_unit)
        expensive_cards ==
            LET s == SortDesc([i \in 1..Len(cards) |->
                         [k |-> cards[i].energy_cost, v |-> cards[i]]])
            IN  [i \in 1..Len(s) |-> s[i].v]
        kept(seq) == IF keep_alternative(seq, primary) THEN <<seq>> ELSE <<>>
        conservative == IF cheap_cards # <<>> THEN kept(build(SubSeq(cheap_cards, 1, 1)))
                        ELSE <<>>
        units == IF Len(unit_cards) >= 2 THEN kept(build(unit_cards)) ELSE <<>>
        big_play == IF expensive_cards # <<>> /\ expensive_cards[1].energy_cost >= 3
                    THEN kept(build(<<expensive_cards[1]>>))
                    ELSE <<>>
    IN  conservative \o units \o big_play

\* PlayStrategy, as _convert_sequence_to_strategy fills it
PlayStrategy(strategy_name, card_ids, total_energy, priority) ==
    [strategy_name |-> strategy_name, card_ids |-> card_ids,
     total_energy |-> total_energy, priority |-> priority]

\* _convert_sequence_to_strategy
convert_sequence_to_strategy(sequence, strategy_name, priority) ==
    PlayStrategy(strategy_name, Ids(sequence.steps), sequence.total_energy, priority)

StrategyNames == <<"Conservative Play", "Board Control Focus", "Single Big Play">>

\* an alternative's priority counted from 1
alternative_priority_from_one(idx) == idx + 1

\* analyze_playable_cards: "priority=idx + 2", idx counted from 0
alternative_priority(idx) == idx + 2

\* analyze_playable_cards, lines 772-795
build_strategies(primary, alternatives) ==
    <<convert_sequence_to_strategy(primary, "Optimal Sequence", 1)>>
    \o [i \in 1..Len(alternatives) |->
           convert_sequence_to_strategy(alternatives[i],
               IF i <= Len(StrategyNames) THEN StrategyNames[i] ELSE "Alternative",
               alternative_priority(i - 1))]

\* analyze_playable_cards, lines 797-840: PlayableCardRecommendation entries
build_recommendations(cards, primary, values) ==
    LET steps == primary.steps
        sequenced_ids == Range(Ids(steps))
        not_sequenced(c) == c.card_id \notin sequenced_ids
        rest == SelectSeq(cards, not_sequenced)
    IN  [i \in 1..Len(steps) |->
            [card_id |-> CardById(cards, steps[i].card_id).card_id,
             priority |-> steps[i].step_number,
             recommended |-> TRUE,
             reason |-> steps[i].reason,
             battlefield_placement |-> steps[i].battlefield_target,
             value_score |-> values[steps[i].card_id]]]
        \o [i \in 1..Len(rest) |->
            [card_id |-> rest[i].card_id,
             priority |-> Len(steps) + 10,
             recommended |-> FALSE,
             reason |-> "Not included in optimal sequence",
             battlefield_placement |-> NoneInt,
             value_score |-> values[rest[i].card_id]]]

\* PlayableCardsAdvice
PlayableCardsAdvice(playable_cards, strategies, primary_strategy, summ) ==
    [playable_cards |-> playable_cards, recommended_strategies |-> strategies,
     primary_strategy |-> primary_strategy, recommended_plays |-> primary_strategy,
     summary |-> summ]

NoAdvice == PlayableCardsAdvice(<<>>, <<>>, <<>>, "")
NoAnalysis == analyze_riftbound_battlefields(<<>>)
NoValues == [id \in {} |-> 0]

LaneCount == 2

\* the negation of "len(battlefields) != 2"
valid_lane_count(bfs) == Len(bfs) = LaneCount

\* analyze_playable_cards, lines 691-700: "if not hand"
PlayRejectEmptyHand ==
    /\ pc = "play"
    /\ hand = <<>>
    /\ advice' = PlayableCardsAdvice(<<>>, <<>>, <<>>, "No cards in hand to play.")
    /\ pc' = "done"
    /\ UNCHANGED <<mullVars, apiVars, inputVars, legend_synergy, remaining_cards, playable, battlefield_analysis,
                   threat_level, card_values, primary_sequence, alternative_sequences>>

\* analyze_playable_cards, lines 702-708: "if len(battlefields) != 2"
PlayRejectLaneCount ==
    /\ pc = "play"
    /\ hand # <<>>
    /\ ~valid_lane_count(battlefields)
    /\ advice' = PlayableCardsAdvice(<<>>, <<>>, <<>>, "Error: Expected 2 battlefields")
    /\ pc' = "done"
    /\ UNCHANGED <<mullVars, apiVars, inputVars, legend_synergy, remaining_cards, playable, battlefield_analysis,
                   threat_level, card_values, primary_sequence, alternative_sequences>>

\* analyze_playable_cards, lines 710-723: nothing passes the resource filter
PlayNothingPlayable ==
    /\ pc = "play"
    /\ hand # <<>>
    /\ valid_lane_count(battlefields)
    /\ filter_playable_cards(hand, my_energy, my_power) = <<>>
    /\ advice' = PlayableCardsAdvice(<<>>, <<>>, <<>>, "No playable cards")
    /\ pc' = "done"
    /\ UNCHANGED <<mullVars, apiVars, inputVars, legend_synergy, remaining_cards, playable, battlefield_analysis,
                   threat_level, card_values, primary_sequence, alternative_sequences>>

\* analyze_playable_cards, lines 710-745: the filter, the battlefield analysis,
\* the threat level and the card values
PlayAnalyze ==
    /\ pc = "play"
    /\ hand # <<>>
    /\ valid_lane_count(battlefields)
    /\ playable' = filter_playable_cards(hand, my_energy, my_power)
    /\ playable' # <<>>
    /\ battlefield_analysis' =
           [analyze_riftbound_battlefields(battlefields)
              EXCEPT !.highest_opponent_might = highest_opponent_might(battlefields)]
    /\ threat_level' = assess_battlefield_threat_level(battlefield_analysis',
                                                       opponent_score, my_score)
    /\ card_values' = [id \in Range(Ids(playable')) |->
                          calculate_card_value(LastById(playable', id), turn,
                                               battlefield_analysis', legend_card)]
    /\ pc' = "sequence"
    /\ UNCHANGED <<mullVars, apiVars, inputVars, legend_synergy, remaining_cards, primary_sequence,
                   alternative_sequences, advice>>

\* analyze_playable_cards, lines 747-757
BuildPrimarySequence ==
    /\ pc = "sequence"
    /\ primary_sequence' =
           build_optimal_sequence(playable, card_values, battlefield_analysis,
                                  determine_game_phase(turn), threat_level, phase,
                                  my_energy, battlefields)
    /\ pc' = "alternatives"
    /\ UNCHANGED <<mullVars, apiVars, inputVars, legend_synergy, remaining_cards, playable, battlefield_analysis,
                   threat_level, card_values, alternative_sequences, advice>>

\* analyze_playable_cards, lines 759-770
BuildAlternativeSequences ==
    /\ pc = "alternatives"
    /\ alternative_sequences' =
           generate_alternative_sequences(playable, card_values, battlefield_analysis,
                                          determine_game_phase(turn), threat_level,
                                          phase, my_energy, battlefields,
                                          primary_sequence)
    /\ pc' = "advise"
    /\ UNCHANGED <<mullVars, apiVars, inputVars, legend_synergy, remaining_cards, playable, battlefield_analysis,
                   threat_level, card_values, primary_sequence, advice>>

\* analyze_playable_cards, lines 772-896
ReturnPlayAdvice ==
    /\ pc = "advise"
    /\ advice' = PlayableCardsAdvice(
                     build_recommendations(playable, primary_sequence, card_values),
                     build_strategies(primary_sequence, alternative_sequences),
                     Ids(primary_sequence.steps),
                     IF Len(primary_sequence.steps) > 1 THEN "Turn summary. Sequence."
                     ELSE "Turn summary.")
    /\ pc' = "done"
    /\ UNCHANGED <<mullVars, apiVars, inputVars, legend_synergy, remaining_cards, playable, battlefield_analysis,
                   threat_level, card_values, primary_sequence, alternative_sequences>>

PlayStep ==
    \/ PlayRejectEmptyHand
    \/ PlayRejectLaneCount
    \/ PlayNothingPlayable
    \/ PlayAnalyze
    \/ BuildPrimarySequence
    \/ BuildAlternativeSequences
    \/ ReturnPlayAdvice

\* a direct call of analyze_riftbound_battlefields
AnalyzeBattlefields ==
    /\ pc = "lanes"
    /\ battlefield_analysis' = analyze_riftbound_battlefields(battlefields)
    /\ pc' = "done"
    /\ UNCHANGED <<mullVars, apiVars, inputVars, legend_synergy, remaining_cards, playable, threat_level, card_values,
                   primary_sequence, alternative_sequences, advice>>

----------------------------------------------------------------------------
(* api.py: the mulligan endpoint *)

\* MulliganRequest: hand_ids has min_length = max_length = 4
ValidateMulliganRequest ==
    /\ pc = "request"
    /\ IF Len(hand_ids) = HandSize
       THEN pc' = "endpoint" /\ UNCHANGED response
       ELSE pc' = "responded" /\ response' = [NoResponse EXCEPT !.status = 422]
    /\ UNCHANGED <<mullVars, entry, hand_ids, missing_ids, playVars>>

RECURSIVE make_hand_from_ids(_)
\* card_utils.make_hand_from_ids: the hand and the missing ids
make_hand_from_ids(card_ids) ==
    IF card_ids = <<>> THEN [hand |-> <<>>, missing |-> <<>>]
    ELSE LET rest == make_hand_from_ids(Tail(card_ids))
             card == get_card(Head(card_ids))
         IN  IF ~in_catalog(Head(card_ids))
             THEN [hand |-> rest.hand, missing |-> <<Head(card_ids)>> \o rest.missing]
             ELSE [hand |-> <<parse_abilities(card_record_to_hand_card(card))>>
                            \o rest.hand,
                   missing |-> rest.missing]

\* mulligan_advice_endpoint, lines 145-162: the hand is built; 400 without cards
MulliganEndpoint ==
    /\ pc = "endpoint"
    /\ LET made == make_hand_from_ids(hand_ids)
       IN  /\ hand' = made.hand
           /\ hand0' = made.hand
           /\ missing_ids' = made.missing
           /\ IF made.hand = <<>>
              THEN /\ pc' = "responded"
                   /\ response' = [NoResponse EXCEPT !.status = 400]
                   /\ UNCHANGED legend_card
              ELSE /\ pc' = "start"
                   /\ legend_card' = (IF ~in_catalog(legend_card) THEN NoCard
                                      ELSE legend_card)
                   /\ UNCHANGED response
    /\ UNCHANGED <<going_first, composition, rune_analysis,
                   kept_any_3_cost_unit, decisions, mulligan_count, summary, entry,
                   hand_ids, playVars>>

\* mulligan_advice_endpoint, lines 164-177: the advice is returned
MulliganRespond ==
    /\ pc = "done"
    /\ entry = "api"
    /\ response' = [status |-> 200, decisions |-> decisions, summary |-> summary,
                    mulligan_count |-> mulligan_count]
    /\ pc' = "responded"
    /\ UNCHANGED <<mullVars, entry, hand_ids, missing_ids, playVars>>

\* mulligan_advice_endpoint, lines 181-183: "except Exception" answers 500
MulliganRespondError ==
    /\ pc = "raised"
    /\ entry = "api"
    /\ response' = [NoResponse EXCEPT !.status = 500]
    /\ pc' = "responded"
    /\ UNCHANGED <<mullVars, entry, hand_ids, missing_ids, playVars>>

----------------------------------------------------------------------------
(* card_evaluation.py; the scores are multiplied by Scale *)

\* "ability.effect_value or d"
ValueOr(v, d) == IF Truthy(v) THEN v ELSE d

\* _calculate_unit_ability_value: what one ability adds.  The tests nested
\* under the enters-battlefield and activated branches compare the same
\* ability_type with another kind and never succeed.
unit_ability_value(ab, game_phase, ctx) ==
    CASE ab.ability_type = "enters_battlefield" -> 3 * Scale
      [] ab.ability_type = "static_buff" ->
            IF ab.effect_target = "your_units"
            THEN (ctx.my_units * ValueOr(ab.effect_value, 1) * 3 * Scale) \div 2
                 + (IF ctx.empty_battlefields > 0 THEN 2 * Scale ELSE 0)
            ELSE IF ab.effect_target = "all_units"
            THEN (ctx.my_units * ValueOr(ab.effect_value, 1) * 4 * Scale) \div 5
            ELSE 0
      [] ab.ability_type \in {"tap_ability", "exhaust_ability"} -> (3 * Scale) \div 2
      [] ab.ability_type = "attacks" ->
            (3 * Scale) \div 2 + (IF game_phase = "early" THEN Scale \div 2 ELSE 0)
      [] ab.ability_type = "dies" -> Scale
      [] ab.ability_type = "protection" -> 2 * Scale
      [] ab.ability_type = "cost_reduction" -> 3 * Scale
      [] OTHER -> 0

\* _calculate_spell_ability_value: what one ability adds
spell_ability_value(ab, game_phase, ctx) ==
    CASE ab.ability_type = "destroy" ->
            4 * Scale
            + (IF /\ ab.effect_target \in {"all_units", "opponent_units"}
                  /\ ctx.opponent_units >= 2
               THEN 6 * Scale ELSE 0)
      [] ab.ability_type = "damage" ->
            (ValueOr(ab.effect_value, 0) * 4 * Scale) \div 5
            + (IF ab.effect_target = "target_unit"
               THEN IF ctx.opponent_units > 0 THEN 2 * Scale ELSE 0
               ELSE IF ab.effect_target = "all_units" /\ ctx.opponent_units >= 2
               THEN 3 * Scale ELSE 0)
      [] ab.ability_type = "bounce" ->
            (5 * Scale) \div 2 + (IF ctx.opponent_units > 0 THEN Scale ELSE 0)
      [] ab.ability_type = "draw_cards" ->
            (ValueOr(ab.effect_value, 1) * 5 * Scale) \div 2
            + (IF game_phase = "late" THEN Scale ELSE 0)
      [] ab.ability_type \in BuffTypes ->
            IF ctx.my_units > 0
            THEN (ValueOr(ab.effect_value, 1) * 3 * Scale) \div 2
                 + (IF ab.timing = "instant" THEN 2 * Scale ELSE 0)
            ELSE Scale \div 2
      [] ab.ability_type = "buff_all" -> IF ctx.my_units >= 2 THEN 4 * Scale ELSE 0
      [] ab.ability_type = "counter" ->
            3 * Scale + (IF ab.timing = "instant" THEN Scale ELSE 0)
      [] ab.ability_type = "protection" ->
            IF ctx.my_units > 0 THEN (5 * Scale) \div 2 ELSE 0
      [] OTHER -> 0

\* _calculate_gear_ability_value: keyword_values.get(keyword_lower, 1.0)
GearKeywordValue(k) ==
    CASE k \in {"assault", "flying", "overwhelm"} -> 2 * Scale
      [] k \in {"guard", "lifesteal"} -> (3 * Scale) \div 2
      [] OTHER -> Scale

RECURSIVE GearKeywordValues(_)
GearKeywordValues(S) ==
    IF S = {} THEN 0
    ELSE LET x == CHOOSE y \in S : TRUE
         IN  GearKeywordValue(x) + GearKeywordValues(S \ {x})

\* _calculate_gear_ability_value
calculate_gear_ability_value(card, ctx) ==
    IF ctx.my_units = 0 THEN 0
    ELSE SumSeq([i \in 1..Len(card.parsed_abilities) |->
            LET ab == card.parsed_abilities[i] IN
            (IF ab.ability_type \in BuffTypes
             THEN (ValueOr(ab.effect_value, 1) * 3 * Scale) \div 2 ELSE 0)
            + GearKeywordValues(ab.keywords_granted)
            + (IF ab.ability_type \in {"tap_ability", "exhaust_ability"}
               THEN 2 * Scale ELSE 0)])

\* calculate_card_value: keyword_values.get(keyword, 0.5)
UnitKeywordValue(k) ==
    CASE k \in {"assault", "flying", "quick"} -> 2 * Scale
      [] k \in {"guard", "lifesteal", "ambush"} -> (3 * Scale) \div 2
      [] k = "overwhelm" -> (5 * Scale) \div 2
      [] k = "double strike" -> 3 * Scale
      [] k = "weaponmaster" -> Scale
      [] OTHER -> Scale \div 2

RECURSIVE UnitKeywordValues(_)
UnitKeywordValues(S) ==
    IF S = {} THEN 0
    ELSE LET x == CHOOSE y \in S : TRUE
         IN  UnitKeywordValue(x) + UnitKeywordValues(S \ {x})

\* card_evaluation.calculate_card_value
card_evaluation_value(card0, game_phase, ctx) ==
    LET card == EnsureParsed(card0)
        abs == card.parsed_abilities
        unit ==
            (IF Truthy(card.might) /\ card.energy_cost > 0
             THEN (card.might * 2 * Scale) \div card.energy_cost
                  + (IF 2 * card.might >= 3 * card.energy_cost THEN 2 * Scale
                     ELSE IF card.might >= card.energy_cost THEN Scale ELSE 0)
             ELSE IF Truthy(card.might) THEN card.might * 2 * Scale ELSE 0)
            + UnitKeywordValues(card.keywords)
            + SumSeq([i \in 1..Len(abs) |-> unit_ability_value(abs[i], game_phase, ctx)])
            + (IF card.energy_cost <= 2
               THEN IF game_phase = "early" THEN 2 * Scale ELSE Scale
               ELSE IF card.energy_cost = 3 THEN Scale \div 2 ELSE 0)
        spell ==
            (IF card.energy_cost <= 2 THEN 2 * Scale
             ELSE IF card.energy_cost = 3 THEN Scale ELSE 0)
            + SumSeq([i \in 1..Len(abs) |-> spell_ability_value(abs[i], game_phase, ctx)])
            + (IF abs = <<>>
               THEN (IF "removal" \in card.tags THEN 3 * Scale ELSE 0)
                    + (IF "damage" \in card.tags THEN 2 * Scale ELSE 0)
                    + (IF card.tags \cap {"buff", "protection"} # {}
                       THEN (3 * Scale) \div 2 ELSE 0)
               ELSE 0)
        gear ==
            (IF ctx.my_units > 0 THEN 2 * Scale + ctx.my_units * (Scale \div 2)
             ELSE Scale \div 2)
            + (IF card.energy_cost <= 2 THEN Scale ELSE 0)
            + calculate_gear_ability_value(card, ctx)
    IN  Max(CASE card.card_type = "unit" -> unit
              [] card.card_type = "spell" -> spell
              [] card.card_type = "gear" -> gear
              [] OTHER -> 0, 0)

----------------------------------------------------------------------------
(* api.py and legend_analysis.py: legends and their synergies with a card. *)
(* An ability of a legend is a line of its rules text, as word tokens; a   *)
(* substring test of the source is a test for the words that contain it.   *)

RECURSIVE SplitNewlines(_, _)
\* rules_text.split('\n')
SplitNewlines(text, cur) ==
    IF text = <<>> THEN <<cur>>
    ELSE IF Head(text) = "nl" THEN <<cur>> \o SplitNewlines(Tail(text), <<>>)
    ELSE SplitNewlines(Tail(text), Append(cur, Head(text)))

\* PlayerState.legend is None
NoLegend ==
    [present |-> FALSE, card_id |-> NoCard, name |-> "", domain |-> "", exhausted |-> FALSE,
     passive_abilities |-> <<>>, activated_abilities |-> <<>>,
     triggered_abilities |-> <<>>, tags |-> {}]

\* api._build_legend_from_card, for the legend's card id or NoCard; the tags
\* of the card are not copied to the Legend
build_legend_from_card(id, exhausted) ==
    IF ~in_catalog(id) THEN NoLegend
    ELSE LET card == Catalog(id)
             lines == SelectSeq(SplitNewlines(card.rules_text, <<>>),
                                LAMBDA l : l # <<>>)
             activated(l) == \E w \in {"tap", "exhaust", "activate"} : HasPhrase(l, <<w, ":">>)
             triggered(l) ==
                 \/ \E i \in 1..(Len(l) - 1) : l[i] \in {"when", "whenever"}
                 \/ HasPhrase(l, <<"at", "the">>)
         IN  [present |-> TRUE, card_id |-> card.card_id, name |-> card.name,
              domain |-> card.domain, exhausted |-> exhausted,
              passive_abilities |->
                  SelectSeq(lines, LAMBDA l : ~activated(l) /\ ~triggered(l)),
              activated_abilities |-> SelectSeq(lines, activated),
              triggered_abilities |->
                  SelectSeq(lines, LAMBDA l : ~activated(l) /\ triggered(l)),
              tags |-> {}]

\* LegendSynergy; value_modifier is multiplied by Scale
LegendSynergy(type, tenths, opp) ==
    [synergy_type |-> type, value_modifier |-> (tenths * Scale) \div 10, is_opponent |-> opp]

\* the first non-empty result of a loop that returns from its first hit
FirstNonEmpty(rs) ==
    LET hit == {i \in 1..Len(rs) : rs[i] # <<>>}
    IN  IF hit = {} THEN <<>> ELSE rs[CHOOSE i \in hit : \A j \in hit : i <= j]

\* requires_legend_exhaustion
requires_legend_exhaustion(card) ==
    \/ HasPhrase(card.rules_text,
                 <<"exhaust", "your", "legend", "as", "an", "additional", "cost">>)
    \/ HasPhrase(card.rules_text, <<"exhaust", "your", "legend", "to">>)
    \/ HasPhrase(card.rules_text, <<"you", "may", "exhaust", "your", "legend">>)
    \/ HasPhrase(card.rules_text, <<"exhaust", "legend", ":">>)

LegendWords == {"legend", "legend's", "legends", "legendary"}

\* analyze_exhaustion_synergy
analyze_exhaustion_synergy(card, legend) ==
    IF ~legend.present THEN <<>>
    ELSE IF requires_legend_exhaustion(card)
    THEN IF ~legend.exhausted THEN <<LegendSynergy("exhaustion_cost", 15, FALSE)>>
         ELSE <<LegendSynergy("exhaustion_cost", -20, FALSE)>>
    ELSE IF HasAny(card.rules_text, {"ready", "already"}) /\ HasAny(card.rules_text, LegendWords)
    THEN IF legend.exhausted THEN <<LegendSynergy("ready_effect", 30, FALSE)>>
         ELSE <<LegendSynergy("ready_effect", 5, FALSE)>>
    ELSE <<>>

\* analyze_domain_synergy
analyze_domain_synergy(card, legend) ==
    IF ~legend.present THEN <<>>
    ELSE IF /\ \E i \in 1..Len(legend.passive_abilities) :
                  Has(legend.passive_abilities[i], card.domain)
            /\ card.domain = legend.domain
    THEN <<LegendSynergy("domain_synergy", 20, FALSE)>>
    ELSE IF Has(card.rules_text, legend.domain)
    THEN <<LegendSynergy("domain_synergy", 15, FALSE)>>
    ELSE <<>>

\* analyze_tribal_synergy
analyze_tribal_synergy(card, legend) ==
    IF ~legend.present THEN <<>>
    ELSE IF card.tags \cap legend.tags # {}
    THEN <<LegendSynergy("tribal_synergy", 10, FALSE)>>
    ELSE IF \E i \in 1..Len(legend.passive_abilities) :
               HasAny(legend.passive_abilities[i], card.tags)
    THEN <<LegendSynergy("tribal_synergy", 20, FALSE)>>
    ELSE <<>>

\* analyze_activated_ability_synergy: the first ability with a hit decides
analyze_activated_ability_synergy(card, legend) ==
    LET of(l) ==
            CASE card.card_type = "unit" ->
                    IF HasAny(l, {"move", "swap", "reposition"})
                    THEN <<LegendSynergy("activated_support", 10, FALSE)>>
                    ELSE IF HasAny(l, {"buff", "might", "strengthen"} \cup PlusTokens)
                    THEN <<LegendSynergy("activated_support", 15, FALSE)>>
                    ELSE IF HasAny(l, {"protect", "shield", "guard", "save"})
                    THEN <<LegendSynergy("activated_support", 12, FALSE)>>
                    ELSE <<>>
              [] card.card_type = "spell" ->
                    IF /\ HasAny(l, {"cost", "costs"})
                       /\ HasAny(l, {"reduce", "less", "discount"})
                    THEN <<LegendSynergy("activated_support", 10, FALSE)>>
                    ELSE IF HasAny(l, {"copy", "duplicate", "additional"})
                    THEN <<LegendSynergy("activated_support", 25, FALSE)>>
                    ELSE <<>>
              [] card.card_type = "gear" ->
                    IF HasAny(l, {"attach", "equip", "equipped", "gear"})
                    THEN <<LegendSynergy("activated_support", 8, FALSE)>>
                    ELSE <<>>
              [] OTHER -> <<>>
    IN  IF ~legend.present \/ legend.activated_abilities = <<>> \/ legend.exhausted
        THEN <<>>
        ELSE FirstNonEmpty([i \in 1..Len(legend.activated_abilities) |->
                               of(legend.activated_abilities[i])])

\* analyze_passive_synergy: the first ability with a hit decides
analyze_passive_synergy(card, legend) ==
    LET of(l) ==
            CASE card.card_type = "unit" ->
                    IF HasAny(l, {"might", "+1/", "+2/", "stronger"})
                    THEN <<LegendSynergy("passive_buff", 15, FALSE)>>
                    ELSE IF HasAny(l, {"assault", "guard", "flying", "overwhelm"})
                    THEN <<LegendSynergy("passive_buff", 12, FALSE)>>
                    ELSE <<>>
              [] card.card_type = "spell" ->
                    IF /\ \/ HasPhrase(l, <<"spell", "damage">>)
                          \/ HasPhrase(l, <<"bonus", "damage">>)
                          \/ HasPhrase(l, <<"spells", "deal">>)
                       /\ card.tags \cap {"damage", "removal", "destroy"} # {}
                    THEN <<LegendSynergy("passive_buff", 20, FALSE)>>
                    ELSE IF HasAny(l, {"cost", "costs"}) /\ HasAny(l, {"less", "reduce"})
                    THEN <<LegendSynergy("passive_buff", 15, FALSE)>>
                    ELSE <<>>
              [] OTHER -> <<>>
    IN  IF ~legend.present THEN <<>>
        ELSE FirstNonEmpty([i \in 1..Len(legend.passive_abilities) |->
                               of(legend.passive_abilities[i])])

\* analyze_combo_potential
analyze_combo_potential(card, legend) ==
    IF ~legend.present THEN <<>>
    ELSE IF legend.name # "" /\ Has(card.rules_text, legend.name)
    THEN <<LegendSynergy("combo_enabler", 30, FALSE)>>
    ELSE IF ~HasAny(card.rules_text, LegendWords) THEN <<>>
    ELSE IF \/ HasAny(card.rules_text, {"protect", "protects", "save"})
            \/ HasPhrase(card.rules_text, <<"prevent", "damage", "to">>)
    THEN <<LegendSynergy("protection", 15, FALSE)>>
    ELSE IF /\ HasAny(card.rules_text, {"sacrifice", "destroy", "exile"})
            /\ HasAny(card.rules_text, {"when", "whenever", "if"})
    THEN <<LegendSynergy("combo_enabler", 0, FALSE)>>
    ELSE <<>>

\* analyze_opponent_legend_risk: the triggered, then the passive, then (when
\* the legend is ready) the activated abilities of the opponent's legend
analyze_opponent_legend_risk(card, op_legend) ==
    LET trig(l) ==
            IF /\ card.card_type = "unit"
               /\ HasAny(l, {"destroy", "kill", "damage", "remove"})
               /\ HasAny(l, {"when", "whenever"})
            THEN <<LegendSynergy("counter_risk", -10, TRUE)>>
            ELSE IF /\ card.card_type = "spell"
                    /\ HasAny(l, {"counter", "negate", "cancel"})
            THEN <<LegendSynergy("counter_risk", -15, TRUE)>>
            ELSE <<>>
        pass(l) ==
            IF card.card_type = "unit" /\ HasAny(l, {"damage", "hurt", "ping"})
            THEN <<LegendSynergy("counter_risk", -5, TRUE)>>
            ELSE IF /\ HasAny(l, {"cost", "costs"})
                    /\ HasAny(l, {"more", "additional", "increase"})
            THEN <<LegendSynergy("counter_risk", -8, TRUE)>>
            ELSE <<>>
        act(l) ==
            IF HasAny(l, {"destroy", "kill", "bounce", "return"})
            THEN <<LegendSynergy("counter_risk", -12, TRUE)>>
            ELSE <<>>
        triggered == [i \in 1..Len(op_legend.triggered_abilities) |->
                         trig(op_legend.triggered_abilities[i])]
        passive == [i \in 1..Len(op_legend.passive_abilities) |->
                       pass(op_legend.passive_abilities[i])]
        activated == IF op_legend.exhausted THEN <<>>
                     ELSE [i \in 1..Len(op_legend.activated_abilities) |->
                              act(op_legend.activated_abilities[i])]
    IN  IF ~op_legend.present THEN <<>>
        ELSE FirstNonEmpty(triggered \o passive \o activated)

\* analyze_legend_synergy: (synergies, total_modifier)
analyze_legend_synergy(card, legend, op_legend) ==
    LET synergies ==
            analyze_exhaustion_synergy(card, legend)
            \o analyze_domain_synergy(card, legend)
            \o analyze_tribal_synergy(card, legend)
            \o analyze_activated_ability_synergy(card, legend)
            \o analyze_passive_synergy(card, legend)
            \o analyze_combo_potential(card, legend)
            \o analyze_opponent_legend_risk(card, op_legend)
    IN  [synergies |-> synergies,
         total_modifier |->
             SumSeq([i \in 1..Len(synergies) |-> synergies[i].value_modifier])]

----------------------------------------------------------------------------
(* The callers' inputs *)

MaxHand == 4

MulliganIds == {"A", "C", "D", "E", "S"}
Legends == {NoCard, "L"}

RECURSIVE SeqsUpTo(_, _)
\* the sequences over S of length at most n
SeqsUpTo(S, n) ==
    IF n = 0 THEN {<<>>}
    ELSE LET shorter == SeqsUpTo(S, n - 1)
         IN  shorter \cup {Append(s, x) : s \in {t \in shorter : Len(t) = n - 1}, x \in S}

\* a hand of catalog cards, all with their abilities parsed (as
\* make_hand_from_ids builds them) or none (as a caller may build them)
HandOf(ids, parsed) ==
    [i \in 1..Len(ids) |->
        IF parsed THEN card_record_to_hand_card(Catalog(ids[i]))
        ELSE CardInHand(Catalog(ids[i]), <<>>)]

MulliganIdle ==
    /\ composition = NoComposition
    /\ rune_analysis = NoRunes
    /\ kept_any_3_cost_unit = FALSE
    /\ decisions = <<>>
    /\ mulligan_count = 0
    /\ summary = ""

EndpointIdle ==
    /\ hand_ids = <<>>
    /\ missing_ids = <<>>
    /\ response = NoResponse

NoPower == [d \in {} |-> 0]

NoSynergy == [synergies |-> <<>>, total_modifier |-> 0]

\* card_evaluation.calculate_card_value, lines 75-81
DefaultContext ==
    [my_units |-> 0, opponent_units |-> 0, empty_battlefields |-> 2,
     contested_battlefields |-> 0]

\* the defaults of the optional arguments
DefaultArguments ==
    /\ my_legend_exhausted = FALSE
    /\ opponent_legend = NoCard
    /\ opponent_legend_exhausted = FALSE
    /\ value_game_phase = "mid"
    /\ battlefield_context = DefaultContext

PlayIdle ==
    /\ legend_synergy = NoSynergy
    /\ remaining_cards = <<>>
    /\ playable = <<>>
    /\ battlefield_analysis = NoAnalysis
    /\ threat_level = "none"
    /\ card_values = NoValues
    /\ primary_sequence = NoSequence
    /\ alternative_sequences = <<>>
    /\ advice = NoAdvice

NoPlayInputs ==
    /\ my_energy = 0
    /\ my_power = NoPower
    /\ turn = 1
    /\ phase = "mulligan"
    /\ battlefields = <<>>
    /\ my_score = NoneInt
    /\ opponent_score = NoneInt
    /\ DefaultArguments

\* analyze_mulligan is called with a hand of up to MaxHand cards
InitMulligan ==
    /\ pc = "start"
    /\ entry = "direct"
    /\ \E ids \in SeqsUpTo(MulliganIds, MaxHand) : \E parsed \in BOOLEAN :
          /\ hand = HandOf(ids, parsed)
          /\ hand0 = hand
    /\ legend_card \in Legends
    /\ going_first \in BOOLEAN
    /\ MulliganIdle /\ EndpointIdle /\ NoPlayInputs /\ PlayIdle

SpecMulligan == InitMulligan /\ [][MulliganStep]_vars

MaxRequestIds == 4

RequestIds == {"A", "D", "E", "S", "unknown"}

\* the mulligan endpoint receives a request
InitEndpoint ==
    /\ pc = "request"
    /\ entry = "api"
    /\ hand_ids \in SeqsUpTo(RequestIds, MaxRequestIds)
    /\ missing_ids = <<>>
    /\ response = NoResponse
    /\ hand = <<>>
    /\ hand0 = <<>>
    /\ legend_card \in Legends \cup {"unknown"}
    /\ going_first \in BOOLEAN
    /\ MulliganIdle /\ NoPlayInputs /\ PlayIdle

\* the endpoint never passes an empty hand on
EndpointNext ==
    \/ ValidateMulliganRequest
    \/ MulliganEndpoint
    \/ RejectHandSize
    \/ AnalyzeHand
    \/ EvaluateHand
    \/ EnforceMulliganLimit
    \/ EnsureKeepAtLeastOne
    \/ ReturnAdvice
    \/ MulliganRespond
    \/ MulliganRespondError

SpecEndpoint == InitEndpoint /\ [][EndpointNext]_vars

MaxPlayHand == 3
MaxEnergy == 3

PlayIds == {"A", "B", "C", "G", "K"}

Empty == Lane(NoneInt, NoneInt)
Mine == Lane(2, NoneInt)
Theirs == Lane(NoneInt, 5)
Contested == Lane(2, 3)

LaneConfigs ==
    {<<>>, <<Theirs>>, <<Empty, Empty, Mine>>,
     <<Empty, Empty>>, <<Empty, Theirs>>, <<Mine, Empty>>, <<Theirs, Theirs>>,
     <<Contested, Empty>>}

\* a turn and its phase
Contexts == {<<2, "main">>, <<7, "showdown">>}

\* analyze_playable_cards is called
InitPlay ==
    /\ pc = "play"
    /\ entry = "play"
    /\ \E ids \in SeqsUpTo(PlayIds, MaxPlayHand) :
          /\ hand = HandOf(ids, TRUE)
          /\ hand0 = hand
    /\ legend_card = NoCard
    /\ going_first = TRUE
    /\ my_energy \in 0..MaxEnergy
    /\ my_power = NoPower
    /\ \E c \in Contexts : turn = c[1] /\ phase = c[2]
    /\ battlefields \in LaneConfigs
    /\ my_score = NoneInt
    /\ opponent_score = NoneInt
    /\ DefaultArguments
    /\ MulliganIdle /\ EndpointIdle /\ PlayIdle

SpecPlay == InitPlay /\ [][PlayStep]_vars

MaxLanes == 3

LaneKinds == {Empty, Mine, Theirs, Contested, Lane(5, NoneInt), Lane(3, 5), Lane(3, 3)}

\* analyze_riftbound_battlefields is called
InitLanes ==
    /\ pc = "lanes"
    /\ entry = "lanes"
    /\ hand = <<>>
    /\ hand0 = <<>>
    /\ legend_card = NoCard
    /\ going_first = TRUE
    /\ my_energy = 0
    /\ my_power = NoPower
    /\ turn = 1
    /\ phase = "main"
    /\ battlefields \in SeqsUpTo(LaneKinds, MaxLanes)
    /\ my_score = NoneInt
    /\ opponent_score = NoneInt
    /\ DefaultArguments
    /\ MulliganIdle /\ EndpointIdle /\ PlayIdle

SpecLanes == InitLanes /\ [][AnalyzeBattlefields]_vars

Phases == {"main", "combat", "showdown", "end"}

RECURSIVE Orders(_)
\* the orders in which the cards of S can be held
Orders(S) ==
    IF S = {} THEN {<<>>}
    ELSE UNION {{<<x>> \o p : p \in Orders(S \ {x})} : x \in S}

\* analyze_playable_cards is called with the hand A, B, C, D in some order,
\* 3 energy, an early turn and two empty lanes
InitScenario ==
    /\ pc = "play"
    /\ entry = "play"
    /\ \E ids \in Orders({"A", "B", "C", "D"}) :
          /\ hand = HandOf(ids, TRUE)
          /\ hand0 = hand
    /\ legend_card \in Legends
    /\ going_first \in BOOLEAN
    /\ my_energy = 3
    /\ my_power \in {NoPower, [d \in {"fury"} |-> 2]}
    /\ turn \in 1..3
    /\ phase \in Phases
    /\ battlefields = <<Empty, Empty>>
    /\ my_score \in {NoneInt, 5}
    /\ opponent_score \in {NoneInt, 5}
    /\ DefaultArguments
    /\ MulliganIdle /\ EndpointIdle /\ PlayIdle

ScenarioNext ==
    \/ PlayAnalyze
    \/ BuildPrimarySequence
    \/ BuildAlternativeSequences
    \/ ReturnPlayAdvice

SpecScenario == InitScenario /\ [][ScenarioNext]_vars

MaxTurn == 8

Threat6 == Lane(NoneInt, 6)

\* analyze_playable_cards is called with the removal spell R and the weak unit
\* W in hand, 2 energy, and an opponent unit of might 6 alone in one lane
InitThreat ==
    /\ pc = "play"
    /\ entry = "play"
    /\ \E ids \in Orders({"R", "W"}) :
          /\ hand = HandOf(ids, TRUE)
          /\ hand0 = hand
    /\ legend_card = NoCard
    /\ going_first \in BOOLEAN
    /\ my_energy = 2
    /\ my_power = NoPower
    /\ turn \in 1..MaxTurn
    /\ phase \in Phases
    /\ battlefields \in {<<Threat6, Empty>>, <<Empty, Threat6>>}
    /\ my_score \in {NoneInt, 5}
    /\ opponent_score \in {NoneInt, 5}
    /\ DefaultArguments
    /\ MulliganIdle /\ EndpointIdle /\ PlayIdle

SpecThreat == InitThreat /\ [][ScenarioNext]_vars

\* CardInHand.parse_abilities is called on each card of the hand
ParseAbilities ==
    /\ pc = "parse"
    /\ hand' = [i \in 1..Len(hand) |-> parse_abilities(hand[i])]
    /\ pc' = "done"
    /\ UNCHANGED <<hand0, legend_card, going_first, composition, rune_analysis,
                   kept_any_3_cost_unit, decisions, mulligan_count, summary,
                   apiVars, playVars>>

MaxFragments == 2

WhenEntersDeal == <<"when", "this", "enters", ",", "deal", "2", "damage">>

\* sentences of rules text; the empty one stands between two separators
Fragments ==
    {<<>>, <<"go">>, <<"it">>, <<"a", "2">>,
     WhenEntersDeal,
     <<"when", "this", "enters", "the", "battlefield", ",", "deal", "2", "damage">>,
     <<"when", "this", "dies", ",", "draw", "2", "cards">>,
     <<"at", "the", "end", "of", "your", "turn", ",", "units", "you", "control",
       "get", "+1">>,
     <<"tap", ":", "draw", "a", "card">>,
     <<"exhaust", ":", "your", "units", "get", "+1">>,
     <<"your", "units", "get", "+1">>,
     <<"deal", "2", "damage", "to", "target", "unit">>,
     <<"choose", "one">>, <<"choose", "two">>,
     <<"ready", "your", "legend">>}

RECURSIVE Join(_, _)
\* the fragments written one after the other with the separator between them
Join(fs, sep) ==
    IF fs = <<>> THEN <<>>
    ELSE IF Len(fs) = 1 THEN fs[1]
    ELSE fs[1] \o <<sep>> \o Join(Tail(fs), sep)

\* rules texts of up to MaxFragments sentences, with or without a final period
RulesTexts ==
    {Join(fs, sep) \o end : fs \in SeqsUpTo(Fragments, MaxFragments),
                            sep \in Separators, end \in {<<>>, <<".">>}}

\* a card with some rules text is built and its abilities are parsed
InitParse ==
    /\ pc = "parse"
    /\ entry = "parse"
    /\ \E text \in RulesTexts : \E type \in {"unit", "spell"} :
          hand = <<CardInHand(Rec("X", "card", type, "fury", 1, NoneInt, {}, {}, text),
                              <<>>)>>
    /\ hand0 = hand
    /\ legend_card = NoCard
    /\ going_first = TRUE
    /\ MulliganIdle /\ EndpointIdle /\ NoPlayInputs /\ PlayIdle

SpecParse == InitParse /\ [][ParseAbilities]_vars

\* card_evaluation.calculate_card_value is applied to each card of the hand
EvaluateCards ==
    /\ pc = "value"
    /\ card_values' = [id \in Range(Ids(hand)) |->
                          card_evaluation_value(LastById(hand, id), value_game_phase,
                                                battlefield_context)]
    /\ pc' = "done"
    /\ UNCHANGED <<mullVars, apiVars, inputVars, legend_synergy, remaining_cards, playable,
                   battlefield_analysis, threat_level, primary_sequence,
                   alternative_sequences, advice>>

MaxUnits == 2

ValueIds == {"A", "G", "Q", "R", "U", "V", "W"}

GamePhases == {"early", "mid", "late"}

\* calculate_card_value is called on one or two cards, in a game phase and
\* with a board of up to MaxUnits units a side
InitValue ==
    /\ pc = "value"
    /\ entry = "value"
    /\ \E ids \in SeqsUpTo(ValueIds, 2) \ {<<>>}, parsed \in BOOLEAN :
          /\ hand = HandOf(ids, parsed)
          /\ hand0 = hand
    /\ legend_card = NoCard
    /\ going_first = TRUE
    /\ MulliganIdle /\ EndpointIdle /\ PlayIdle
    /\ my_energy = 0
    /\ my_power = NoPower
    /\ turn = 1
    /\ phase = "main"
    /\ battlefields = <<>>
    /\ my_score = NoneInt
    /\ opponent_score = NoneInt
    /\ my_legend_exhausted = FALSE
    /\ opponent_legend = NoCard
    /\ opponent_legend_exhausted = FALSE
    /\ value_game_phase \in GamePhases
    /\ battlefield_context \in
          [my_units : 0..MaxUnits, opponent_units : 0..MaxUnits,
           empty_battlefields : 0..LaneCount, contested_battlefields : {0}]

SpecValue == InitValue /\ [][EvaluateCards]_vars

PlayLegends == {NoCard, "L", "Y"}
OpponentLegends == {NoCard, "O"}

\* analyze_playable_cards is called with the hand A, C, G in some order, 3
\* energy, and the two legends in each of their states
InitLegendPlay ==
    /\ pc = "play"
    /\ entry = "play"
    /\ \E ids \in Orders({"A", "C", "G"}) :
          /\ hand = HandOf(ids, TRUE)
          /\ hand0 = hand
    /\ legend_card \in PlayLegends
    /\ going_first = TRUE
    /\ my_energy = 3
    /\ my_power = NoPower
    /\ \E c \in Contexts : turn = c[1] /\ phase = c[2]
    /\ battlefields \in {<<Empty, Empty>>, <<Mine, Empty>>}
    /\ my_score = NoneInt
    /\ opponent_score = NoneInt
    /\ my_legend_exhausted \in BOOLEAN
    /\ opponent_legend \in OpponentLegends
    /\ opponent_legend_exhausted \in BOOLEAN
    /\ value_game_phase = "mid"
    /\ battlefield_context = DefaultContext
    /\ MulliganIdle /\ EndpointIdle /\ PlayIdle

SpecLegendPlay == InitLegendPlay /\ [][ScenarioNext]_vars

\* analyze_legend_synergy(card, player, opponent) is called on the one card of
\* the hand; the two players hold the legends built by _build_legend_from_card
AnalyzeLegendSynergy ==
    /\ pc = "synergy"
    /\ legend_synergy' =
          analyze_legend_synergy(hand[1],
              build_legend_from_card(legend_card, my_legend_exhausted),
              build_legend_from_card(opponent_legend, opponent_legend_exhausted))
    /\ pc' = "done"
    /\ UNCHANGED <<mullVars, apiVars, inputVars, remaining_cards, playable,
                   battlefield_analysis, threat_level, card_values, primary_sequence,
                   alternative_sequences, advice>>

SynergyIds == {"A", "B", "C", "D", "E", "G", "K", "Q", "Z"}

\* analyze_legend_synergy is called on a card, with or without a legend on
\* either side
InitSynergy ==
    /\ pc = "synergy"
    /\ entry = "synergy"
    /\ \E id \in SynergyIds, parsed \in BOOLEAN :
          /\ hand = HandOf(<<id>>, parsed)
          /\ hand0 = hand
    /\ legend_card \in PlayLegends
    /\ going_first = TRUE
    /\ my_energy = 0
    /\ my_power = NoPower
    /\ turn = 1
    /\ phase = "main"
    /\ battlefields = <<>>
    /\ my_score = NoneInt
    /\ opponent_score = NoneInt
    /\ my_legend_exhausted \in BOOLEAN
    /\ opponent_legend \in OpponentLegends
    /\ opponent_legend_exhausted \in BOOLEAN
    /\ value_game_phase = "mid"
    /\ battlefield_context = DefaultContext
    /\ MulliganIdle /\ EndpointIdle /\ PlayIdle

SpecSynergy == InitSynergy /\ [][AnalyzeLegendSynergy]_vars

ScheduleIds == {"A", "K", "M", "N", "Z"}

\* analyze_playable_cards is called with up to MaxPlayHand cards, among them
\* the zero-cost Z and the units M and N that name each other
InitSchedule ==
    /\ pc = "play"
    /\ entry = "play"
    /\ \E ids \in SeqsUpTo(ScheduleIds, MaxPlayHand) \ {<<>>} :
          /\ hand = HandOf(ids, TRUE)
          /\ hand0 = hand
    /\ legend_card = NoCard
    /\ going_first = TRUE
    /\ my_energy \in 0..MaxEnergy
    /\ my_power = NoPower
    /\ \E c \in Contexts : turn = c[1] /\ phase = c[2]
    /\ battlefields \in {<<Empty, Empty>>, <<Mine, Empty>>, <<Theirs, Empty>>}
    /\ my_score = NoneInt
    /\ opponent_score = NoneInt
    /\ DefaultArguments
    /\ MulliganIdle /\ EndpointIdle /\ PlayIdle

SpecSchedule == InitSchedule /\ [][ScenarioNext]_vars

(* _build_optimal_sequence, one iteration of its loop at a time; the steps  *)
(* made so far are primary_sequence.steps, from which played_cards and      *)
(* cumulative_energy are read                                               *)

\* card_priorities[id]
CardPriority(id) ==
    calculate_play_priority(LastById(playable, id), card_values, battlefield_analysis,
                            determine_game_phase(turn), threat_level, phase)

\* card_dependencies[id]
CardDependencies(id) ==
    identify_card_dependencies(LastById(playable, id), playable, battlefields)

played_cards == Range(Ids(primary_sequence.steps))

\* the for loop would admit the i-th of the remaining cards
Admissible(i) ==
    /\ can_afford(primary_sequence.total_energy, remaining_cards[i].energy_cost, my_energy)
    /\ deps_met(CardDependencies(remaining_cards[i].card_id), played_cards)

\* lines 257-281: the priorities, the dependencies and the sorted list
SortCandidates ==
    /\ pc = "sequence"
    /\ remaining_cards' =
           sort_by_priority(playable, [id \in Range(Ids(playable)) |-> CardPriority(id)])
    /\ primary_sequence' = NoSequence
    /\ pc' = "loop"
    /\ UNCHANGED <<mullVars, apiVars, inputVars, legend_synergy, playable,
                   battlefield_analysis, threat_level, card_values,
                   alternative_sequences, advice>>

\* lines 284-329: an iteration of the while loop, which admits the first of
\* the remaining cards that can be admitted
AdmitCard ==
    /\ pc = "loop"
    /\ remaining_cards # <<>>
    /\ primary_sequence.total_energy < my_energy
    /\ \E i \in 1..Len(remaining_cards) :
          /\ Admissible(i)
          /\ \A j \in 1..(i - 1) : ~Admissible(j)
          /\ LET card == remaining_cards[i]
                 deps == CardDependencies(card.card_id)
                 cumulative_energy == primary_sequence.total_energy + card.energy_cost
                 step == [card_id |-> card.card_id,
                          card_name |-> card.name,
                          step_number |-> Len(primary_sequence.steps) + 1,
                          energy_cost |-> card.energy_cost,
                          cumulative_energy |-> cumulative_energy,
                          reason |-> generate_step_reason(card, deps, battlefield_analysis),
                          dependencies |-> deps,
                          battlefield_target |->
                              IF card.card_type = "unit"
                              THEN select_battlefield_for_unit(card, battlefields)
                              ELSE NoneInt]
             IN  /\ primary_sequence' = [primary_sequence EXCEPT
                                            !.steps = Append(@, step),
                                            !.total_energy = cumulative_energy]
                 /\ remaining_cards' = RemoveAt(remaining_cards, i)
    /\ UNCHANGED <<pc, mullVars, apiVars, inputVars, legend_synergy, playable,
                   battlefield_analysis, threat_level, card_values,
                   alternative_sequences, advice>>

\* lines 284 and 331-351: the loop ends, by its condition or by the break of
\* an iteration that admitted nothing, and the sequence is returned
LeaveLoop ==
    /\ pc = "loop"
    /\ \/ remaining_cards = <<>>
       \/ primary_sequence.total_energy >= my_energy
       \/ \A i \in 1..Len(remaining_cards) : ~Admissible(i)
    /\ primary_sequence' =
           [primary_sequence EXCEPT
               !.risk_level = assess_sequence_risk(primary_sequence.total_energy,
                                  my_energy, determine_game_phase(turn))]
    /\ remaining_cards' = <<>>
    /\ pc' = "alternatives"
    /\ UNCHANGED <<mullVars, apiVars, inputVars, legend_synergy, playable,
                   battlefield_analysis, threat_level, card_values,
                   alternative_sequences, advice>>

LoopNext ==
    \/ PlayAnalyze
    \/ SortCandidates
    \/ AdmitCard
    \/ LeaveLoop

\* the same calls on an early turn with two empty lanes
InitLoop ==
    /\ InitSchedule
    /\ turn = 2
    /\ battlefields = <<Empty, Empty>>

\* the analysis up to its primary sequence, the loop taken one iteration at a
\* time; the loop does not pause: an iteration that can be made is made
SpecLoop == InitLoop /\ [][LoopNext]_vars /\ WF_vars(AdmitCard \/ LeaveLoop)

Scores == {NoneInt, 0, 5, 10, 11}

\* analyze_playable_cards is called with the unit A in hand, 1 energy, two
\* lanes of every kind and the scores unknown, 0, low, 10 and above 10
InitAssess ==
    /\ pc = "play"
    /\ entry = "play"
    /\ hand = HandOf(<<"A">>, TRUE)
    /\ hand0 = hand
    /\ legend_card = NoCard
    /\ going_first = TRUE
    /\ my_energy = 1
    /\ my_power = NoPower
    /\ turn = 2
    /\ phase = "main"
    /\ battlefields \in {<<a, b>> : a \in LaneKinds, b \in LaneKinds}
    /\ my_score \in Scores
    /\ opponent_score \in {NoneInt, 5}
    /\ DefaultArguments
    /\ MulliganIdle /\ EndpointIdle /\ PlayIdle

SpecAssess == InitAssess /\ [][ScenarioNext]_vars

PowerIds == {"A", "F", "P"}

PowerPools == {NoPower, [d \in {"fury"} |-> 1], [d \in {"fury"} |-> 2]}

\* analyze_playable_cards is called with cards that cost fury power and a
\* pool of fury power
InitPower ==
    /\ pc = "play"
    /\ entry = "play"
    /\ \E ids \in SeqsUpTo(PowerIds, MaxPlayHand) \ {<<>>} :
          /\ hand = HandOf(ids, TRUE)
          /\ hand0 = hand
    /\ legend_card = NoCard
    /\ going_first = TRUE
    /\ my_energy \in 0..MaxEnergy
    /\ my_power \in PowerPools
    /\ \E c \in Contexts : turn = c[1] /\ phase = c[2]
    /\ battlefields = <<Empty, Empty>>
    /\ my_score = NoneInt
    /\ opponent_score = NoneInt
    /\ DefaultArguments
    /\ MulliganIdle /\ EndpointIdle /\ PlayIdle

SpecPower == InitPower /\ [][ScenarioNext]_vars

----------------------------------------------------------------------------
(* Properties of analyze_mulligan *)

MulliganedCount == Cardinality({i \in 1..Len(decisions) : ~decisions[i].keep})

C5_WrongSizeRejected ==
    Len(hand0) # HandSize =>
        /\ pc \in {"start", "done"}
        /\ hand = hand0
        /\ composition = NoComposition
        /\ rune_analysis = NoRunes
        /\ decisions = <<>>
        /\ mulligan_count = 0
        /\ pc = "done" => summary \in {"No cards in hand to evaluate.",
                                       "Invalid hand size: expected 4 cards"}

\* C5 happens: a three-card hand holding a card whose abilities a parse would
\* have filled in was rejected
C5_Witness ==
    /\ pc = "done"
    /\ Len(hand0) = HandSize - 1
    /\ summary = "Invalid hand size: expected 4 cards"
    /\ \E i \in 1..Len(hand0) :
          hand0[i].parsed_abilities = <<>> /\ parse_abilities(hand0[i]) # hand0[i]

----------------------------------------------------------------------------
(* Properties of the play sequencer and of analyze_playable_cards *)

\* every PlaySequence built so far: the primary one and the kept alternatives
Sequences == <<primary_sequence>> \o alternative_sequences

StepCosts(seq) == [i \in 1..Len(seq.steps) |-> seq.steps[i].energy_cost]

\* C2: in every sequence produced (primary and alternatives) the step costs
\* sum to at most my_energy, and no cumulative_energy exceeds my_energy
C2_BudgetRespected ==
    \A k \in 1..Len(Sequences) :
        LET seq == Sequences[k] IN
        /\ SumSeq(StepCosts(seq)) <= my_energy
        /\ seq.total_energy = SumSeq(StepCosts(seq))
        /\ \A i \in 1..Len(seq.steps) :
              /\ seq.steps[i].cumulative_energy <= my_energy
              /\ seq.steps[i].cumulative_energy =
                     SumSeq(SubSeq(StepCosts(seq), 1, i))

\* C2 happens: the playable cards cost more than the budget, the primary
\* sequence spends all of it and leaves a playable card out
C2_Witness ==
    /\ pc = "done"
    /\ SumSeq([i \in 1..Len(playable) |-> playable[i].energy_cost]) > my_energy
    /\ Len(primary_sequence.steps) >= 2
    /\ primary_sequence.total_energy = my_energy
    /\ alternative_sequences # <<>>

\* C3: in every sequence, each dependency id of a step is the card id of a
\* step with a strictly smaller index
C3_DependenciesEarlier ==
    \A k \in 1..Len(Sequences) :
        LET steps == Sequences[k].steps IN
        \A i \in 1..Len(steps) :
            \A d \in 1..Len(steps[i].dependencies) :
                \E j \in 1..(i - 1) : steps[j].card_id = steps[i].dependencies[d]

\* C3 happens: a step with a dependency was scheduled behind the card it
\* depends on, although its own priority put it first
C3_Witness ==
    /\ pc = "done"
    /\ \E i \in 2..Len(primary_sequence.steps) :
          /\ primary_sequence.steps[i].dependencies # <<>>
          /\ primary_sequence.steps[i].card_id = "K"
          /\ primary_sequence.steps[i - 1].card_id = "A"

\* how many elements of the sequence of ids are id
IdCount(ids, id) == Cardinality({i \in 1..Len(ids) : ids[i] = id})

Recommended(on) ==
    LET pick(r) == r.recommended = on
    IN  Ids(SelectSeq(advice.playable_cards, pick))

\* C7: every playable card appears exactly once in playable_cards:
\* recommended exactly when it is a step of the primary sequence, otherwise
\* as not recommended with a reason; no unscheduled playable card is missing
C7_EveryPlayableReported ==
    (pc = "done" /\ playable # <<>>) =>
        \A id \in Range(Ids(playable)) :
            /\ IdCount(Ids(advice.playable_cards), id) = IdCount(Ids(playable), id)
            /\ IdCount(Recommended(TRUE), id) = IdCount(Ids(primary_sequence.steps), id)
            /\ \A i \in 1..Len(advice.playable_cards) :
                  ~advice.playable_cards[i].recommended
                      => advice.playable_cards[i].reason # ""

\* C8: with at least one playable card the strategies hold exactly one
\* primary strategy (priority 1, listed first); its card ids are the primary
\* sequence's steps in order and equal primary_strategy and recommended_plays;
\* every other strategy has a distinct priority greater than 1
C8_OnePrimaryStrategy ==
    (pc = "done" /\ playable # <<>>) =>
        LET st == advice.recommended_strategies IN
        /\ Len(st) >= 1
        /\ st[1].priority = 1
        /\ st[1].card_ids = Ids(primary_sequence.steps)
        /\ advice.primary_strategy = st[1].card_ids
        /\ advice.recommended_plays = st[1].card_ids
        /\ \A i \in 2..Len(st) : st[i].priority > 1
        /\ \A i, j \in 1..Len(st) : i # j => st[i].priority # st[j].priority

\* C8 happens: the advice holds the primary strategy and two alternatives
C8_Witness ==
    /\ pc = "done"
    /\ Len(advice.recommended_strategies) = 3
    /\ Len(advice.primary_strategy) >= 2

\* C9 as amended: every kept alternative spends a total energy different from
\* the primary sequence's, so its cards differ from the primary's as a
\* multiset of card ids
C9_AlternativesDiffer ==
    \A k \in 1..Len(alternative_sequences) :
        LET alt == alternative_sequences[k] IN
        /\ alt.steps # <<>>
        /\ alt.total_energy # primary_sequence.total_energy
        /\ \E id \in Range(Ids(playable)) :
              IdCount(Ids(alt.steps), id) # IdCount(Ids(primary_sequence.steps), id)

\* C9 happens: an alternative was built and kept beside a two-step primary
C9_Witness ==
    /\ pc = "done"
    /\ alternative_sequences # <<>>
    /\ Len(primary_sequence.steps) >= 2

\* C9 as stated: every kept alternative has a set of card ids different from
\* the primary sequence's set of card ids
C9_Original ==
    \A k \in 1..Len(alternative_sequences) :
        Range(Ids(alternative_sequences[k].steps))
            # Range(Ids(primary_sequence.steps))

\* C4: battlefield analysis and planning reject every input whose lane list
\* does not have exactly 2 entries: no classification, sequence or
\* recommendation is computed
C4_LaneCountRejected ==
    ~valid_lane_count(battlefields) =>
        /\ battlefield_analysis = NoAnalysis
        /\ primary_sequence = NoSequence
        /\ alternative_sequences = <<>>
        /\ advice.playable_cards = <<>>
        /\ (pc = "done" /\ entry = "play" /\ hand # <<>>)
               => advice.summary = "Error: Expected 2 battlefields"

\* C6: when some but not all requested ids are missing from the catalog, the
\* endpoint still answers with decisions over the cards that were found
C6_MissingIdsTolerated ==
    (/\ pc = "responded"
     /\ missing_ids # <<>>
     /\ Len(missing_ids) < Len(hand_ids)
     /\ Len(hand_ids) = HandSize) =>
        /\ response.status = 200
        /\ Len(response.decisions) = Len(hand)
        /\ \A i \in 1..Len(response.decisions) :
              response.decisions[i].card_id = hand[i].card_id

PriorityOf(id) ==
    calculate_play_priority(LastById(playable, id), card_values, battlefield_analysis,
                            determine_game_phase(turn), threat_level, phase)

\* C11: with an opponent unit of might 6 alone in one lane, the other lane
\* empty, the cost-2 removal spell R and the cost-2 might-1 unit W in hand and
\* 2 energy, the threat level is high, R has a higher play priority than W
\* and the primary sequence plays R, not W
C11_RemovalOutranksUnit ==
    pc \in {"alternatives", "advise", "done"} =>
        /\ threat_level = "high"
        /\ PriorityOf("R") > PriorityOf("W")
        /\ Ids(primary_sequence.steps) = <<"R">>

\* what the code does in the C11 scenario: the threat level is high, and the
\* unit's bonus for an empty lane puts W ahead of R
C11_UnitOutranksRemoval ==
    pc \in {"alternatives", "advise", "done"} =>
        /\ threat_level = "high"
        /\ PriorityOf("W") > PriorityOf("R")
        /\ Ids(primary_sequence.steps) = <<"W">>

\* all cards of the hand passed to analyze_mulligan cost 4 or more, and no
\* legend is supplied
HeavyHand ==
    /\ Len(hand0) = HandSize
    /\ \A i \in 1..Len(hand0) : hand0[i].energy_cost >= 4
    /\ legend_card = NoCard

\* the advice for a heavy hand: two mulligans, two keeps forced by the limit
HeavyAdvice ==
    /\ Len(decisions) = HandSize
    /\ MulliganedCount = 2
    /\ mulligan_count = 2
    /\ \A i \in 1..Len(decisions) :
          decisions[i].keep => decisions[i].reason = "kept_due_to_2_card_limit"

\* C12: for every 4-card hand whose cards all cost 4 or more, without a
\* legend, analyze_mulligan returns; exactly 2 cards are marked mulligan and 2
\* kept, mulligan_count is 2 and the two kept cards carry the 2-card-limit
\* reason
C12_HeavyHandTwoMulligans ==
    HeavyHand =>
        /\ pc # "raised"
        /\ pc = "done" => HeavyAdvice

\* what the code does for heavy hands: whenever analyze_mulligan returns, the
\* advice is as C12 says
C12_HeavyHandWhenReturned ==
    (HeavyHand /\ pc = "done") => HeavyAdvice

----------------------------------------------------------------------------
(* Properties of the rules-text parser *)

TriggeredKinds ==
    {"enters_battlefield", "leaves_battlefield", "dies", "attacks", "blocks",
     "deals_damage", "takes_damage", "start_of_turn", "end_of_turn"}
ActivatedKinds == {"tap_ability", "exhaust_ability", "sacrifice_ability",
                   "pay_cost_ability"}
StaticKinds == {"static_buff", "cost_reduction", "protection", "aura"}
EffectKinds == {"destroy", "damage", "bounce", "draw_cards", "buff_target", "counter"}

\* every parsed ability of every card of the hand
ParsedOfHand == UNION {Range(hand[i].parsed_abilities) : i \in 1..Len(hand)}

\* the category order: a fragment gets the kind of the first of the
\* categories triggered, activated, static, effect in which a pattern matches
FirstCategoryWins ==
    \A ab \in ParsedOfHand :
        LET line == ab.raw_text IN
        /\ TriggeredType(line) # "none" => ab.ability_type \in TriggeredKinds
        /\ (TriggeredType(line) = "none" /\ ActivatedType(line) # "none")
               => ab.ability_type \in ActivatedKinds
        /\ (/\ TriggeredType(line) = "none" /\ ActivatedType(line) = "none"
            /\ StaticType(line) # "none")
               => ab.ability_type \in StaticKinds
        /\ (/\ TriggeredType(line) = "none" /\ ActivatedType(line) = "none"
            /\ StaticType(line) = "none" /\ EffectType(line) # "none")
               => ab.ability_type \in EffectKinds

\* C13: each fragment is classified by the first matching category in the
\* order triggered, activated, static, effect; in particular the fragment
\* "when this enters, deal 2 damage" is an enters-battlefield trigger and not
\* a damage effect
C13_TriggerBeforeEffect ==
    /\ FirstCategoryWins
    /\ \A ab \in ParsedOfHand :
          ab.raw_text = WhenEntersDeal => ab.ability_type = "enters_battlefield"

\* what the code does: the category order holds, and a fragment that says
\* "enters" without "the battlefield" or "play" is a damage effect
C13_EntersNeedsBattlefield ==
    /\ FirstCategoryWins
    /\ \A ab \in ParsedOfHand :
          ab.raw_text = WhenEntersDeal => ab.ability_type = "damage"

\* the fragment of text that starts at i and ends at j: a maximal run of
\* words without a separator
IsFragment(text, i, j) ==
    /\ 1 <= i /\ i <= j /\ j <= Len(text)
    /\ \A k \in i..j : text[k] \notin Separators
    /\ i = 1 \/ text[i - 1] \in Separators
    /\ j = Len(text) \/ text[j + 1] \in Separators

\* the fragments of at least 3 characters, as pairs of positions
LongFragments(text) ==
    {p \in (1..Len(text)) \X (1..Len(text)) :
        IsFragment(text, p[1], p[2]) /\ LineLen(SubSeq(text, p[1], p[2])) >= 3}

\* C14: parse_rules_text returns exactly one ParsedAbility per fragment
\* (text between newline or period separators) of at least 3 characters, in
\* the order of the fragments, with raw_text equal to the fragment; shorter
\* fragments produce nothing
C14_OneAbilityPerFragment ==
    (entry = "parse" /\ pc = "done") =>
        LET text == hand0[1].rules_text
            abilities == hand[1].parsed_abilities
            long == LongFragments(text)
        IN  /\ Len(abilities) = Cardinality(long)
            /\ \A k \in 1..Len(abilities) :
                  \E p \in long :
                     /\ abilities[k].raw_text = SubSeq(text, p[1], p[2])
                     /\ Cardinality({q \in long : q[1] < p[1]}) = k - 1

\* C14 happens: a text with a short fragment between or beside a long one was
\* parsed into a single ability
C14_Witness ==
    /\ entry = "parse"
    /\ pc = "done"
    /\ \E i \in 1..Len(hand0[1].rules_text) : hand0[1].rules_text[i] \in Separators
    /\ HasAny(hand0[1].rules_text, {"go", "it"})
    /\ Len(hand[1].parsed_abilities) = 1

(* Properties of card_evaluation.calculate_card_value *)

GearsOfHand == {i \in 1..Len(hand) : hand[i].card_type = "gear"}

\* C15: the value of a gear card is exactly 0 whenever no friendly unit is on
\* the board, whatever its cost, keywords and abilities
C15_GearWorthlessWithoutUnits ==
    (pc = "done" /\ entry = "value" /\ battlefield_context.my_units = 0)
        => \A i \in GearsOfHand : card_values[hand[i].card_id] = 0

\* what the code computes instead: half a point, and one more for a gear that
\* costs at most 2
C15_GearBaseWithoutUnits ==
    (pc = "done" /\ entry = "value" /\ battlefield_context.my_units = 0)
        => \A i \in GearsOfHand :
              card_values[hand[i].card_id] =
                  Scale \div 2 + (IF hand[i].energy_cost <= 2 THEN Scale ELSE 0)

(* Properties of the legend synergies *)

\* the total modifier of a card of the hand with the player's legend
ModifierOf(card) ==
    analyze_legend_synergy(card,
        build_legend_from_card(legend_card, my_legend_exhausted),
        build_legend_from_card(opponent_legend, opponent_legend_exhausted)).total_modifier

\* the value the play analysis gives a card when no legend is passed
LegendFreeValue(card) == calculate_card_value(card, turn, battlefield_analysis, NoCard)

Valued == entry = "play" /\ pc \in {"sequence", "alternatives", "advise", "done"}

\* C16: in the play analysis a card with a non-zero legend-synergy modifier
\* is valued at its legend-independent score plus a multiple of that
\* modifier, so its value differs from the one it has without the legend
C16_LegendChangesValue ==
    Valued =>
        \A i \in 1..Len(playable) :
            ModifierOf(playable[i]) # 0
                => card_values[playable[i].card_id] # LegendFreeValue(playable[i])

\* what the code computes instead: the value never depends on the legend
C16_ValueIgnoresLegend ==
    Valued =>
        \A i \in 1..Len(playable) :
            card_values[playable[i].card_id] = LegendFreeValue(playable[i])

OwnSynergies(syns) == SelectSeq(syns, LAMBDA x : ~x.is_opponent)

SumOfModifiers(syns) == SumSeq([i \in 1..Len(syns) |-> syns[i].value_modifier])

Analyzed == entry = "synergy" /\ pc = "done"

\* C17: the total modifier of analyze_legend_synergy is the sum of the
\* modifiers of the player's own synergies; a counter-risk synergy of the
\* opponent's legend is listed and never added to the total
C17_TotalOfOwnSynergies ==
    Analyzed =>
        legend_synergy.total_modifier = SumOfModifiers(OwnSynergies(legend_synergy.synergies))

\* what the code computes instead: the sum over the whole list
C17_TotalOfAllSynergies ==
    Analyzed =>
        legend_synergy.total_modifier = SumOfModifiers(legend_synergy.synergies)

\* a counter-risk synergy is in the list
C17_RiskListed ==
    /\ Analyzed
    /\ \E i \in 1..Len(legend_synergy.synergies) : legend_synergy.synergies[i].is_opponent

(* Properties of the scheduling loop of _build_optimal_sequence *)

\* the dependencies the sequencer gives a card among the candidates
DepsAmong(cands, id) ==
    Range(identify_card_dependencies(LastById(cands, id), cands, battlefields))

\* the energy spent by the first k steps
SpentAfter(steps, k) == IF k = 0 THEN 0 ELSE steps[k].cumulative_energy

\* the candidates of that id that the first k steps have left unscheduled
Waiting(cands, steps, k, id) ==
    IdCount(Ids(cands), id) > IdCount(Ids(SubSeq(steps, 1, k)), id)

\* a candidate that, after the first k steps, is unscheduled, fits the
\* remaining energy and has all its dependencies scheduled
Eligible(cands, steps, k, id) ==
    /\ Waiting(cands, steps, k, id)
    /\ SpentAfter(steps, k) + LastById(cands, id).energy_cost <= my_energy
    /\ DepsAmong(cands, id) \subseteq Range(Ids(SubSeq(steps, 1, k)))

Sequenced == entry = "play" /\ pc \in {"alternatives", "advise", "done"} /\ playable # <<>>

\* C18: when the scheduler stops, no unscheduled candidate both fits the
\* remaining energy and has all its dependencies scheduled, for every budget
\* including 0 and for zero-cost cards
C18_StopsAtFixedPoint ==
    Sequenced =>
        \A id \in Range(Ids(playable)) :
            ~Eligible(playable, primary_sequence.steps, Len(primary_sequence.steps), id)

\* what the code computes instead: a candidate that could still be admitted
\* is left only when the energy is spent, and then it costs nothing
C18_OnlyFreeCardsLeft ==
    Sequenced =>
        \A id \in Range(Ids(playable)) :
            Eligible(playable, primary_sequence.steps, Len(primary_sequence.steps), id)
                => /\ primary_sequence.total_energy = my_energy
                   /\ LastById(playable, id).energy_cost = 0

\* the k-th step of a sequence over the candidates was eligible and no
\* eligible candidate had a higher priority
GreedyStep(cands, steps, k) ==
    /\ Eligible(cands, steps, k - 1, steps[k].card_id)
    /\ \A id \in Range(Ids(cands)) :
          Eligible(cands, steps, k - 1, id) => PriorityOf(id) <= PriorityOf(steps[k].card_id)

Greedy(cands, seq) == \A k \in 1..Len(seq.steps) : GreedyStep(cands, seq.steps, k)

\* the candidate lists of _generate_alternative_sequences
AlternativeCandidates ==
    LET cheap == SelectSeq(playable, LAMBDA c : c.energy_cost <= 2)
        units == SelectSeq(playable, LAMBDA c : c.card_type = "unit")
        dearest == {i \in 1..Len(playable) :
                       \A j \in 1..Len(playable) :
                           playable[j].energy_cost <= playable[i].energy_cost}
    IN  {units}
        \cup (IF cheap = <<>> THEN {} ELSE {<<cheap[1]>>})
        \cup {<<playable[i]>> : i \in dearest}

\* C19: every step of a generated sequence is the highest-priority card among
\* the candidates not yet scheduled that then fit the remaining energy and
\* have all their dependencies scheduled
C19_HighestPriorityEligibleFirst ==
    (entry = "play" /\ pc = "done" /\ playable # <<>>) =>
        /\ Greedy(playable, primary_sequence)
        /\ \A a \in 1..Len(alternative_sequences) :
              \E cands \in AlternativeCandidates : Greedy(cands, alternative_sequences[a])

\* C19 happens: a step was admitted ahead of a waiting card of a strictly
\* higher priority that was not eligible, and a step ahead of an eligible
\* card of a strictly lower priority
C19_Witness ==
    LET steps == primary_sequence.steps
        ids == Range(Ids(playable))
    IN  /\ entry = "play" /\ pc = "done"
        /\ \E k \in 1..Len(steps), id \in ids :
              /\ Waiting(playable, steps, k - 1, id)
              /\ ~Eligible(playable, steps, k - 1, id)
              /\ PriorityOf(id) > PriorityOf(steps[k].card_id)
        /\ \E k \in 1..Len(steps), id \in ids :
              /\ Eligible(playable, steps, k - 1, id)
              /\ PriorityOf(id) < PriorityOf(steps[k].card_id)

\* the candidates that depend on each other in a cycle
OnCycle(cands) ==
    LET ids == Range(Ids(cands))
        R0 == {e \in ids \X ids : e[2] \in DepsAmong(cands, e[1])}
        Step(R) == R \cup {e \in ids \X ids :
                              \E m \in ids : <<e[1], m>> \in R /\ <<m, e[2]>> \in R}
        R3 == Step(Step(Step(R0)))
    IN  {id \in ids : <<id, id>> \in R3}

\* no card of a dependency cycle is scheduled, and no card more often than
\* the candidates hold it
NoCycleCardScheduled ==
    (entry = "play" /\ pc \in {"loop", "alternatives", "advise", "done"}) =>
        /\ \A i \in 1..Len(primary_sequence.steps) :
              primary_sequence.steps[i].card_id \notin OnCycle(playable)
        /\ \A q \in 1..Len(Sequences) :
              \A id \in Range(Ids(playable)) :
                  IdCount(Ids(Sequences[q].steps), id) <= IdCount(Ids(playable), id)

\* the loop taken one iteration at a time returns what build_optimal_sequence
\* returns
LoopMatchesSchedule ==
    (entry = "play" /\ pc = "alternatives") =>
        primary_sequence =
            build_optimal_sequence(playable, card_values, battlefield_analysis,
                                   determine_game_phase(turn), threat_level, phase,
                                   my_energy, battlefields)

\* C20: the scheduling loop terminates for every candidate list and budget,
\* also when candidates depend on each other in a cycle; then no card of a
\* cycle has been scheduled and each card at most once
C20_TerminatesWithoutCycleCards ==
    /\ (entry = "play" /\ pc = "loop") ~> (pc = "alternatives")
    /\ []NoCycleCardScheduled

\* C20 happens: the loop ended with a card scheduled and the two cards of a
\* cycle left out, although the energy left would pay for either
C20_Witness ==
    /\ entry = "play" /\ pc = "alternatives"
    /\ primary_sequence.steps # <<>>
    /\ {"M", "N"} \subseteq OnCycle(playable)
    /\ primary_sequence.total_energy + 1 <= my_energy

(* Properties of the gear prerequisite *)

NoUnitOnBoard == \A i \in 1..Len(battlefields) : battlefields[i].my_unit = NoneInt

PlayableUnits == SelectSeq(playable, LAMBDA c : c.card_type = "unit")

\* the playable units of the lowest energy cost
CheapestUnits ==
    {PlayableUnits[i].card_id : i \in
        {i \in 1..Len(PlayableUnits) :
            \A j \in 1..Len(PlayableUnits) :
                PlayableUnits[i].energy_cost <= PlayableUnits[j].energy_cost}}

IsGear(id) == LastById(playable, id).card_type = "gear"

\* every gear step of the sequence comes after a step of a cheapest unit
GearAfterUnit(seq) ==
    \A i \in 1..Len(seq.steps) :
        IsGear(seq.steps[i].card_id)
            => \E j \in 1..(i - 1) : seq.steps[j].card_id \in CheapestUnits

GearCase == entry = "play" /\ pc = "done" /\ NoUnitOnBoard /\ PlayableUnits # <<>>

\* C21: with no friendly unit on the board and a unit among the playable
\* cards, every generated sequence, the primary and each alternative, that
\* holds a gear card holds the cheapest playable unit at an earlier step
C21_GearAfterCheapestUnit ==
    GearCase => \A q \in 1..Len(Sequences) : GearAfterUnit(Sequences[q])

\* what the code computes instead: the primary sequence keeps the order; an
\* alternative built from a candidate list without units holds a gear alone
C21_GearAfterUnitInPrimary ==
    GearCase => GearAfterUnit(primary_sequence)

\* an alternative that is a gear card alone
C21_GearAlone ==
    /\ GearCase
    /\ \E a \in 1..Len(alternative_sequences) :
          /\ Len(alternative_sequences[a].steps) = 1
          /\ IsGear(alternative_sequences[a].steps[1].card_id)

(* Properties of the mulligan limit pass *)

\* the mulligan priority of the card of the i-th decision
DecisionPriority(i) == calculate_mulligan_priority(CardById(hand, decisions[i].card_id))

Marked(ds) == {i \in 1..Len(ds) : ~ds[i].keep}

\* the decisions after the limit pass, against the decisions ds0 before it
LimitPassFlipsBest(ds0, ds1) ==
    LET flipped == {i \in Marked(ds0) : ds1[i].keep}
        stays == Marked(ds0) \ flipped
    IN  /\ Len(ds1) = Len(ds0)
        /\ Cardinality(Marked(ds0)) > MaxMulligans =>
              /\ Cardinality(flipped) = Cardinality(Marked(ds0)) - MaxMulligans
              /\ Cardinality(stays) = MaxMulligans
              /\ \A f \in flipped, m \in stays : DecisionPriority(f) <= DecisionPriority(m)
              /\ \A f \in flipped : ds1[f].reason = "kept_due_to_2_card_limit"
        /\ \A i \in 1..Len(ds0) :
              (ds0[i].keep \/ i \in stays) => ds1[i] = ds0[i]

\* C22: when the evaluation marks k > 2 cards, the limit pass flips exactly
\* k - 2 of them to keep; the 2 that stay marked have the highest mulligan
\* priorities, each flipped card gets the 2-card-limit reason, and the
\* decisions that were keep already are left as they were
C22_LimitPassFlipsBest ==
    [][pc = "enforce" => LimitPassFlipsBest(decisions, decisions')]_vars

\* C22 happens: the limit pass has flipped a card of a strictly lower
\* priority than a card it left marked
C22_Witness ==
    /\ pc = "ensure"
    /\ \E f \in 1..Len(decisions), m \in Marked(decisions) :
          /\ decisions[f].reason = "kept_due_to_2_card_limit"
          /\ DecisionPriority(f) < DecisionPriority(m)

(* Properties of the 3-cost units of the opening hand *)

\* the kept decisions whose card is a unit of cost 3
KeptThreeCostUnits ==
    {i \in 1..Len(decisions) :
        /\ decisions[i].keep
        /\ hand[i].card_type = "unit"
        /\ hand[i].energy_cost = 3}

\* C23: in the decisions returned by analyze_mulligan at most one 3-cost
\* unit is kept; every other 3-cost unit of the hand is marked mulligan
C23_OneThreeCostUnitKept ==
    (pc = "done" /\ Len(hand0) = HandSize) => Cardinality(KeptThreeCostUnits) <= 1

\* what the code computes instead: the rule holds after the evaluation loop,
\* before the limit pass turns marked cards back into keeps
C23_OneThreeCostUnitEvaluated ==
    pc = "enforce" => Cardinality(KeptThreeCostUnits) <= 1

\* a second 3-cost unit kept by the limit pass
C23_SecondKeptByLimit ==
    /\ pc = "done"
    /\ \E i \in KeptThreeCostUnits, j \in KeptThreeCostUnits :
          /\ i < j
          /\ decisions[j].reason = "kept_due_to_2_card_limit"

(* Properties of the threat level *)

Assessed == entry = "play" /\ pc \in {"sequence", "alternatives", "advise", "done"}

\* the level of the first rule that applies, a score counting as known when
\* known(my_score) holds
LevelByRules(known) ==
    LET a == battlefield_analysis IN
    IF a.opponent_only_battlefields = LaneCount THEN "critical"
    ELSE IF a.opponent_total_might - a.my_total_might >= 4 THEN "high"
    ELSE IF known /\ my_score <= 10 /\ a.opponent_units >= 1 THEN "high"
    ELSE IF a.losing_battlefields >= 1 THEN "medium"
    ELSE "low"

\* C24: the threat level is that of the first rule that applies: critical
\* if both lanes hold only an opponent unit; else high if the opponent's
\* might exceeds mine by 4 or more; else high if my score is known and at
\* most 10, 0 included, and the opponent has a unit; else medium if a lane
\* is losing; else low
C24_FirstRuleDecides ==
    Assessed => threat_level = LevelByRules(my_score # NoneInt)

\* what the code computes instead: a score of 0 counts as unknown
C24_ZeroScoreUnknown ==
    Assessed => threat_level = LevelByRules(my_score # NoneInt /\ my_score # 0)

\* a score of 0 against an opponent unit, and no rule above the score rule
C24_ZeroScoreCase ==
    /\ Assessed
    /\ my_score = 0
    /\ battlefield_analysis.opponent_units >= 1
    /\ threat_level \in {"medium", "low"}

(* Properties of the lane analysis *)

LanesAnalyzed == entry = "lanes" /\ pc = "done"

\* how many lanes satisfy both tests: mine and theirs say whether the lane
\* must hold my unit and the opponent's unit
LanesWith(mine, theirs) ==
    Cardinality({i \in 1..Len(battlefields) :
                    /\ (battlefields[i].my_unit # NoneInt) = mine
                    /\ (battlefields[i].opponent_unit # NoneInt) = theirs})

\* how many contested lanes have my might minus the opponent's in the set
ContestedBy(diffs) ==
    Cardinality({i \in 1..Len(battlefields) :
                    /\ battlefields[i].my_unit # NoneInt
                    /\ battlefields[i].opponent_unit # NoneInt
                    /\ battlefields[i].my_unit - battlefields[i].opponent_unit \in diffs})

\* C25: every lane is counted in exactly one of empty, my-only,
\* opponent-only and contested, so the four counts sum to the number of
\* lanes; winning + losing + tied = contested; my_units = my-only +
\* contested; opponent_units = opponent-only + contested; a contested lane is
\* winning, losing or tied by the comparison of the two mights
C25_LaneCountsPartition ==
    LanesAnalyzed =>
        LET a == battlefield_analysis IN
        /\ a.empty_battlefields = LanesWith(FALSE, FALSE)
        /\ a.my_only_battlefields = LanesWith(TRUE, FALSE)
        /\ a.opponent_only_battlefields = LanesWith(FALSE, TRUE)
        /\ a.contested_battlefields = LanesWith(TRUE, TRUE)
        /\ a.empty_battlefields + a.my_only_battlefields
              + a.opponent_only_battlefields + a.contested_battlefields
              = Len(battlefields)
        /\ a.winning_battlefields + a.losing_battlefields + a.tied_battlefields
              = a.contested_battlefields
        /\ a.my_units = a.my_only_battlefields + a.contested_battlefields
        /\ a.opponent_units = a.opponent_only_battlefields + a.contested_battlefields
        /\ a.winning_battlefields = ContestedBy(1..100)
        /\ a.losing_battlefields = ContestedBy(-100..-1)
        /\ a.tied_battlefields = ContestedBy({0})

\* C25 happens: lanes of three kinds were analyzed, a tied lane among them
C25_Witness ==
    /\ LanesAnalyzed
    /\ Len(battlefields) = 3
    /\ battlefield_analysis.tied_battlefields = 1
    /\ battlefield_analysis.opponent_only_battlefields = 1
    /\ battlefield_analysis.empty_battlefields = 1

(* Properties of the fallbacks of the ability parser *)

\* the fragment matches no pattern of the four categories
Unmatched(line) ==
    /\ TriggeredType(line) = "none"
    /\ ActivatedType(line) = "none"
    /\ StaticType(line) = "none"
    /\ EffectType(line) = "none"

IsModalChoice(line) ==
    HasPhrase(line, <<"choose", "one">>) \/ HasPhrase(line, <<"choose", "two">>)

GenericPlaceholder(line) == Ability("static_buff", line, "none", "always", NoneInt, {})

\* C26: exactly two fallback rules apply to a fragment that matches no
\* category pattern: with "choose one" or "choose two" it becomes a
\* choose_effect ability, and every other unmatched fragment becomes the
\* generic static_buff placeholder with timing always, no target and no value
C26_TwoFallbacks ==
    \A ab \in ParsedOfHand :
        Unmatched(ab.raw_text) =>
            IF IsModalChoice(ab.raw_text)
            THEN ab.ability_type = "choose_effect"
            ELSE ab = GenericPlaceholder(ab.raw_text)

\* what the code does: between the two rules a third one turns an unmatched
\* fragment that mentions a legend into a legend_interaction ability
C26_ThreeFallbacks ==
    \A ab \in ParsedOfHand :
        Unmatched(ab.raw_text) =>
            IF IsModalChoice(ab.raw_text)
            THEN ab.ability_type = "choose_effect"
            ELSE IF HasAny(ab.raw_text, {"legend", "legend's", "legendary"})
            THEN ab.ability_type = "legend_interaction" /\ ab.timing = "always"
            ELSE ab = GenericPlaceholder(ab.raw_text)

\* an unmatched fragment without a choice that names a legend was parsed
C26_LegendFragment ==
    \E ab \in ParsedOfHand :
        /\ Unmatched(ab.raw_text)
        /\ ~IsModalChoice(ab.raw_text)
        /\ Has(ab.raw_text, "legend")
        /\ ab.ability_type = "legend_interaction"

(* Properties of the value of an enters-battlefield ability *)

CardsEvaluated == entry = "value" /\ pc = "done"

\* the enters-battlefield abilities of the evaluated units
EtbAbilities ==
    UNION {{ab \in Range(EnsureParsed(hand[i]).parsed_abilities) :
               ab.ability_type = "enters_battlefield"} :
           i \in {j \in 1..Len(hand) : hand[j].card_type = "unit"}}

\* the add-on for what the ability's text does
EtbAddOn(ab) ==
    CASE EffectType(ab.raw_text) = "draw_cards" -> ValueOr(ab.effect_value, 1) * 2 * Scale
      [] EffectType(ab.raw_text) = "destroy" -> 4 * Scale
      [] EffectType(ab.raw_text) = "damage" ->
            (ValueOr(ab.effect_value, 0) * 4 * Scale) \div 5
      [] OTHER -> 0

\* C27: the enters-battlefield ability of a unit contributes the 3.0 base
\* plus the add-on for what it does (+2.0 per card drawn, +4.0 when it
\* destroys, +0.8 per point of damage): 7.0 when it destroys a target unit
C27_EtbBasePlusAddOn ==
    CardsEvaluated =>
        \A ab \in EtbAbilities :
            unit_ability_value(ab, value_game_phase, battlefield_context)
                = 3 * Scale + EtbAddOn(ab)

\* what the code computes: the base alone, whatever the ability does
C27_EtbBaseOnly ==
    CardsEvaluated =>
        \A ab \in EtbAbilities :
            unit_ability_value(ab, value_game_phase, battlefield_context) = 3 * Scale

\* a unit whose enters-battlefield ability destroys a target unit was valued
C27_EtbDestroys ==
    /\ CardsEvaluated
    /\ \E ab \in EtbAbilities : EffectType(ab.raw_text) = "destroy"

(* Properties of the lanes given to the unit steps *)

PlayReturned == entry = "play" /\ pc = "done"

\* the unit steps of the sequence that were given a lane
PlacedSteps(seq) ==
    {i \in 1..Len(seq.steps) :
        /\ LastById(hand, seq.steps[i].card_id).card_type = "unit"
        /\ seq.steps[i].battlefield_target # NoneInt}

\* the lane of step i holds none of my units on the board snapshot
FreeOnBoard(seq, i) ==
    /\ seq.steps[i].battlefield_target \in 0..(Len(battlefields) - 1)
    /\ battlefields[seq.steps[i].battlefield_target + 1].my_unit = NoneInt

\* C28: within one sequence every unit step is given a lane that holds none
\* of my units, counting the units on the board snapshot and the units placed
\* by earlier steps of the sequence; so two unit steps of a sequence never
\* target the same lane and at most 2 unit steps get a lane
C28_LanesNotReused ==
    PlayReturned =>
        \A q \in 1..Len(Sequences) :
            LET seq == Sequences[q] IN
            /\ \A i \in PlacedSteps(seq) : FreeOnBoard(seq, i)
            /\ \A i, j \in PlacedSteps(seq) :
                  i # j => seq.steps[i].battlefield_target # seq.steps[j].battlefield_target
            /\ Cardinality(PlacedSteps(seq)) <= LaneCount

\* what the code computes: each unit step is given the best lane of the board
\* snapshot alone, whatever the earlier steps were given
C28_LaneFromSnapshot ==
    PlayReturned =>
        \A q \in 1..Len(Sequences) :
            LET seq == Sequences[q] IN
            \A i \in 1..Len(seq.steps) :
                LET card == LastById(hand, seq.steps[i].card_id) IN
                /\ card.card_type = "unit" =>
                      seq.steps[i].battlefield_target
                          = select_battlefield_for_unit(card, battlefields)
                /\ i \in PlacedSteps(seq) => FreeOnBoard(seq, i)

\* two unit steps of the primary sequence were given the same lane
C28_SameLaneTwice ==
    /\ PlayReturned
    /\ \E i, j \in PlacedSteps(primary_sequence) :
          /\ i < j
          /\ primary_sequence.steps[i].battlefield_target
                = primary_sequence.steps[j].battlefield_target

(* Properties of the names of the alternative strategies *)

\* the alternative strategies of the advice: all but the first strategy
AlternativeStrategies ==
    {advice.recommended_strategies[k] : k \in 2..Len(advice.recommended_strategies)}

CostOf(id) == LastById(hand, id).energy_cost

\* the strategy's cards satisfy the restriction its name stands for
MatchesItsName(st) ==
    /\ st.strategy_name = "Conservative Play" =>
          Len(st.card_ids) = 1 /\ CostOf(st.card_ids[1]) <= 2
    /\ st.strategy_name = "Board Control Focus" =>
          \A i \in 1..Len(st.card_ids) :
              LastById(hand, st.card_ids[i]).card_type = "unit"
    /\ st.strategy_name = "Single Big Play" =>
          Len(st.card_ids) = 1 /\ CostOf(st.card_ids[1]) >= 3

\* C29: each alternative strategy returned is named after the restriction
\* that produced it: "Conservative Play" is a single card of cost <= 2,
\* "Board Control Focus" holds only unit cards, "Single Big Play" is a single
\* card of cost >= 3, whichever of the three alternatives were kept or dropped
C29_NamedAfterRestriction ==
    PlayReturned => \A st \in AlternativeStrategies : MatchesItsName(st)

\* what the code computes: the k-th alternative that was kept gets the k-th
\* name of the list
C29_NamedByPosition ==
    (PlayReturned /\ advice.recommended_strategies # <<>>) =>
        /\ Len(advice.recommended_strategies) = 1 + Len(alternative_sequences)
        /\ \A k \in 1..Len(alternative_sequences) :
              /\ advice.recommended_strategies[k + 1].strategy_name = StrategyNames[k]
              /\ advice.recommended_strategies[k + 1].card_ids
                    = Ids(alternative_sequences[k].steps)

\* the conservative alternative was dropped and a single card of cost >= 3
\* is returned under the name "Conservative Play"
C29_BigPlayNamedConservative ==
    /\ PlayReturned
    /\ \E st \in AlternativeStrategies :
          /\ st.strategy_name = "Conservative Play"
          /\ Len(st.card_ids) = 1
          /\ CostOf(st.card_ids[1]) >= 3

(* Properties of the power spent by a sequence *)

PowerDomains == {"fury", "calm", "mind", "body", "chaos", "order"}

\* the power the cards of the sequence cost in the domain
PowerSpent(seq, d) ==
    SumSeq([i \in 1..Len(seq.steps) |->
               LET card == LastById(hand, seq.steps[i].card_id) IN
               IF card.domain = d THEN card.power_cost ELSE 0])

\* C30: cards that exceed the remaining power are excluded like cards that
\* exceed the remaining energy: for every generated sequence and every domain
\* the total power cost of the sequence's cards in the domain is at most the
\* power supplied for that domain in my_power
C30_PowerBudgetRespected ==
    (entry = "play" /\ pc \in {"alternatives", "advise", "done"}) =>
        \A q \in 1..Len(Sequences) : \A d \in PowerDomains :
            PowerSpent(Sequences[q], d) <= PowerOf(my_power, d)

\* what the code computes: each card of a sequence alone is within the power
\* of its domain
C30_EachCardWithinPower ==
    (entry = "play" /\ pc \in {"alternatives", "advise", "done"}) =>
        \A q \in 1..Len(Sequences) : \A i \in 1..Len(Sequences[q].steps) :
            LET card == LastById(hand, Sequences[q].steps[i].card_id) IN
            card.power_cost <= PowerOf(my_power, card.domain)

\* the primary sequence holds two cards that each cost the whole fury power
C30_PowerSpentTwice ==
    /\ entry = "play"
    /\ pc = "done"
    /\ PowerOf(my_power, "fury") = 1
    /\ PowerSpent(primary_sequence, "fury") = 2

====
